---- MODULE Spec2Model ----
(***************************************************************************)
(* TatuScan inventory server: the record store, the SQLAlchemy session in  *)
(* front of it, and the service operations create_or_update,                *)
(* partial_update and delete of tatuscan/services/inventory_service.py,    *)
(* as the API routes of tatuscan/blueprint/api/routes.py call them; the     *)
(* distributions the service computes for the charts; the duplicate        *)
(* removal tool client/tools/delete_older.py; and reconcile requests       *)
(* served concurrently, each in a session of its own.                      *)
(***************************************************************************)
EXTENDS Integers, Sequences, FiniteSets, TLC

VARIABLES db, session, clock, last, report, tool, txn

vars == <<db, session, clock, last, report, tool, txn>>

\* what the API requests leave alone: the last report of the metrics, the
\* run of the duplicate removal tool, the transactions of concurrent requests
others == <<report, tool, txn>>

(***************************************************************************)
(* Bounds of the model.                                                    *)
(***************************************************************************)
\* the wall clock runs 0..MaxClock
MaxClock == 1

\* the last tick of the wall clock while the duplicate removal tool runs
MaxPassClock == 3

(***************************************************************************)
(* JSON / Python values.  Every value is a record of the same shape so     *)
(* that values of different Python types can be compared:                  *)
(*   t = "null" None, "str" a str (s, a tuple of characters),               *)
(*       "num" a number (n), "dt" a datetime.                              *)
(* A datetime is either a stamp of the wall clock (n, d = <<>>) or a       *)
(* calendar value d = <<year, month, day, hour, minute, second>> in the    *)
(* configured zone.                                                        *)
(***************************************************************************)
Null == [t |-> "null", s |-> <<>>, n |-> 0, d |-> <<>>]
Str(chars) == [t |-> "str", s |-> chars, n |-> 0, d |-> <<>>]
Num(i) == [t |-> "num", s |-> <<>>, n |-> i, d |-> <<>>]
Stamp(c) == [t |-> "dt", s |-> <<>>, n |-> c, d |-> <<>>]
Cal(tup) == [t |-> "dt", s |-> <<>>, n |-> 0, d |-> tup]

\* the outcome of evaluating a Python expression: a value or an exception
Ok(v) == [exc |-> "", v |-> v]
Raise(e) == [exc |-> e, v |-> Null]

\* dict.get(key): None when the key is absent
Get(data, k) == IF k \in DOMAIN data THEN data[k] ELSE Null

\* Python truthiness of None, str and numbers
Truthy(v) ==
    \/ v.t = "str" /\ v.s # <<>>
    \/ v.t = "num" /\ v.n # 0
    \/ v.t = "dt"

Min(a, b) == IF a <= b THEN a ELSE b

\* value[:] : the whole text
Slice_whole(v, n) ==
    IF v.t = "str" THEN Ok(v) ELSE Raise("TypeError")

\* value[:n] ; None and numbers are not subscriptable
Slice(v, n) ==
    IF v.t = "str" THEN Ok(Str(SubSeq(v.s, 1, Min(Len(v.s), n))))
    ELSE Raise("TypeError")

Digits == <<"0", "1", "2", "3", "4", "5", "6", "7", "8", "9">>
IsDigit(c) == \E i \in 1..10 : Digits[i] = c
DigitVal(c) == (CHOOSE i \in 1..10 : Digits[i] = c) - 1
AllDigits(s) == \A i \in 1..Len(s) : IsDigit(s[i])

RECURSIVE ToNat(_)
ToNat(s) ==
    IF s = <<>> THEN 0
    ELSE 10 * ToNat(SubSeq(s, 1, Len(s) - 1)) + DigitVal(s[Len(s)])

\* str.strip() for blanks
RECURSIVE LStrip(_)
LStrip(s) == IF s # <<>> /\ s[1] = " " THEN LStrip(Tail(s)) ELSE s
RECURSIVE RStrip(_)
RStrip(s) ==
    IF s # <<>> /\ s[Len(s)] = " " THEN RStrip(SubSeq(s, 1, Len(s) - 1)) ELSE s
Strip(s) == RStrip(LStrip(s))

\* the literal of a decimal integer, optionally signed
IsIntLiteral(s) ==
    LET body == IF s # <<>> /\ s[1] \in {"-", "+"} THEN Tail(s) ELSE s
    IN  body # <<>> /\ AllDigits(body)
IntLiteral(s) ==
    IF s[1] = "-" THEN 0 - ToNat(Tail(s))
    ELSE IF s[1] = "+" THEN ToNat(Tail(s)) ELSE ToNat(s)

\* int(v) and float(v) for None, numbers and strings of decimal integers
py_int(v) ==
    CASE v.t = "num" -> Ok(Num(v.n))
      [] v.t = "str" ->
            IF IsIntLiteral(Strip(v.s)) THEN Ok(Num(IntLiteral(Strip(v.s))))
            ELSE Raise("ValueError")
      [] OTHER -> Raise("TypeError")
py_float(v) == py_int(v)

(***************************************************************************)
(* Calendar arithmetic of datetime: days since 1970-01-01 and back.        *)
(***************************************************************************)
\* the configured zone, America/Cuiaba, is UTC-04:00 all year
TzOffsetMinutes == 0 - 240

DaysFromCivil(y, m, dd) ==
    LET yy == IF m <= 2 THEN y - 1 ELSE y
        era == yy \div 400
        yoe == yy - era * 400
        mp == (m + 9) % 12
        doy == (153 * mp + 2) \div 5 + dd - 1
        doe == yoe * 365 + yoe \div 4 - yoe \div 100 + doy
    IN  era * 146097 + doe - 719468

CivilFromDays(z0) ==
    LET z == z0 + 719468
        era == z \div 146097
        doe == z - era * 146097
        yoe == (doe - doe \div 1460 + doe \div 36524 - doe \div 146096) \div 365
        doy == doe - (365 * yoe + yoe \div 4 - yoe \div 100)
        mp == (5 * doy + 2) \div 153
        dd == doy - (153 * mp + 2) \div 5 + 1
        m == IF mp < 10 THEN mp + 3 ELSE mp - 9
        y == yoe + era * 400 + (IF m <= 2 THEN 1 ELSE 0)
    IN  <<y, m, dd>>

IsLeap(y) == (y % 4 = 0 /\ y % 100 # 0) \/ y % 400 = 0
DaysInMonth(y, m) ==
    IF m = 2 THEN (IF IsLeap(y) THEN 29 ELSE 28)
    ELSE IF m \in {4, 6, 9, 11} THEN 30 ELSE 31
ValidDate(y, m, dd) ==
    y >= 1 /\ m \in 1..12 /\ dd >= 1 /\ dd <= DaysInMonth(y, m)

\* the wall time `delta` minutes after the wall time tup
ShiftMinutes(tup, delta) ==
    LET mins == tup[4] * 60 + tup[5] + delta
        days == DaysFromCivil(tup[1], tup[2], tup[3]) + mins \div 1440
        rest == mins % 1440
        ymd == CivilFromDays(days)
    IN  <<ymd[1], ymd[2], ymd[3], rest \div 60, rest % 60, tup[6]>>

\* datetime.fromtimestamp(n, tz)
FromTimestamp(n) ==
    LET local == n + TzOffsetMinutes * 60
        ymd == CivilFromDays(local \div 86400)
        rest == local % 86400
    IN  <<ymd[1], ymd[2], ymd[3], rest \div 3600, (rest % 3600) \div 60, rest % 60>>

(***************************************************************************)
(* Timestamp parsing.                                                      *)
(***************************************************************************)
\* the fields of s between occurrences of the character sep
RECURSIVE Split(_, _)
Split(s, sep) ==
    IF \A i \in 1..Len(s) : s[i] # sep THEN <<s>>
    ELSE LET k == CHOOSE i \in 1..Len(s) :
                      s[i] = sep /\ \A j \in 1..(i - 1) : s[j] # sep
         IN  <<SubSeq(s, 1, k - 1)>> \o Split(SubSeq(s, k + 1, Len(s)), sep)

\* a field of exactly n digits / of one or two digits
DigitsN(f, n) == Len(f) = n /\ AllDigits(f)
Digits12(f) == Len(f) \in {1, 2} /\ AllDigits(f)

\* HH:MM:SS with two digits each, in range
IsClock(f) ==
    /\ Len(f) = 8 /\ f[3] = ":" /\ f[6] = ":"
    /\ AllDigits(SubSeq(f, 1, 2)) /\ AllDigits(SubSeq(f, 4, 5))
    /\ AllDigits(SubSeq(f, 7, 8))
    /\ ToNat(SubSeq(f, 1, 2)) < 24 /\ ToNat(SubSeq(f, 4, 5)) < 60
    /\ ToNat(SubSeq(f, 7, 8)) < 60

\* +HH:MM or -HH:MM
IsOffset(f) ==
    /\ Len(f) = 6 /\ f[1] \in {"+", "-"} /\ f[4] = ":"
    /\ AllDigits(SubSeq(f, 2, 3)) /\ AllDigits(SubSeq(f, 5, 6))
    /\ ToNat(SubSeq(f, 2, 3)) < 24 /\ ToNat(SubSeq(f, 5, 6)) < 60
OffsetMinutes(f) ==
    LET m == ToNat(SubSeq(f, 2, 3)) * 60 + ToNat(SubSeq(f, 5, 6))
    IN  IF f[1] = "-" THEN 0 - m ELSE m

\* YYYY-MM-DD with four, two and two digits, a date of the calendar
IsIsoDate(f) ==
    /\ Len(f) = 10 /\ f[5] = "-" /\ f[8] = "-"
    /\ AllDigits(SubSeq(f, 1, 4)) /\ AllDigits(SubSeq(f, 6, 7))
    /\ AllDigits(SubSeq(f, 9, 10))
    /\ ValidDate(ToNat(SubSeq(f, 1, 4)), ToNat(SubSeq(f, 6, 7)),
                 ToNat(SubSeq(f, 9, 10)))

\* datetime.fromisoformat(s) for the forms YYYY-MM-DD, YYYY-MM-DD?HH:MM:SS
\* and YYYY-MM-DD?HH:MM:SS+HH:MM (? is any one character); aware tells
\* whether the text carried an offset
fromisoformat(s) ==
    LET date == SubSeq(s, 1, 10)
        ymd == <<ToNat(SubSeq(s, 1, 4)), ToNat(SubSeq(s, 6, 7)),
                 ToNat(SubSeq(s, 9, 10))>>
        hms == <<ToNat(SubSeq(s, 12, 13)), ToNat(SubSeq(s, 15, 16)),
                 ToNat(SubSeq(s, 18, 19))>>
    IN  IF Len(s) = 10 /\ IsIsoDate(date)
        THEN [exc |-> "", d |-> ymd \o <<0, 0, 0>>, aware |-> FALSE, off |-> 0]
        ELSE IF Len(s) = 19 /\ IsIsoDate(date) /\ IsClock(SubSeq(s, 12, 19))
        THEN [exc |-> "", d |-> ymd \o hms, aware |-> FALSE, off |-> 0]
        ELSE IF /\ Len(s) = 25 /\ IsIsoDate(date)
                /\ IsClock(SubSeq(s, 12, 19)) /\ IsOffset(SubSeq(s, 20, 25))
        THEN [exc |-> "", d |-> ymd \o hms, aware |-> TRUE,
              off |-> OffsetMinutes(SubSeq(s, 20, 25))]
        ELSE [exc |-> "ValueError", d |-> <<>>, aware |-> FALSE, off |-> 0]

\* datetime.strptime(s, fmt) for the formats "%Y-%m-%d", "%d/%m/%Y" and
\* "%d-%m-%Y": the year has four digits, month and day one or two
strptime(s, fmt) ==
    LET sep == IF fmt = "%d/%m/%Y" THEN "/" ELSE "-"
        f == Split(s, sep)
        yi == IF fmt = "%Y-%m-%d" THEN 1 ELSE 3
        di == IF fmt = "%Y-%m-%d" THEN 3 ELSE 1
    IN  IF /\ Len(f) = 3 /\ DigitsN(f[yi], 4) /\ Digits12(f[2]) /\ Digits12(f[di])
           /\ ValidDate(ToNat(f[yi]), ToNat(f[2]), ToNat(f[di]))
        THEN [exc |-> "", d |-> <<ToNat(f[yi]), ToNat(f[2]), ToNat(f[di]), 0, 0, 0>>]
        ELSE [exc |-> "ValueError", d |-> <<>>]

\* a conversion that takes the wall time of every text as it stands
ToZone_as_written(p) == p.d

\* dt.astimezone(tz) if dt.tzinfo else tz.localize(dt)
ToZone(p) ==
    IF p.aware THEN ShiftMinutes(p.d, TzOffsetMinutes - p.off) ELSE p.d

\* InventoryService._parse_datetime
parse_datetime(value) ==
    IF value.t = "null" \/ (value.t = "str" /\ value.s = <<>>) THEN Ok(Null)
    ELSE IF value.t = "dt" THEN Ok(value)
    ELSE IF value.t = "num" THEN Ok(Cal(FromTimestamp(value.n)))
    ELSE LET s0 == Strip(value.s)
             s == IF s0 # <<>> /\ s0[Len(s0)] = "Z"
                  THEN SubSeq(s0, 1, Len(s0) - 1) \o <<"+", "0", "0", ":", "0", "0">>
                  ELSE s0
             iso == fromisoformat(s)
             ymd == strptime(s, "%Y-%m-%d")
             dmy == strptime(s, "%d/%m/%Y")
         IN  IF s0 = <<>> THEN Ok(Null)
             ELSE IF iso.exc = "" THEN Ok(Cal(ToZone(iso)))
             ELSE IF ymd.exc = "" THEN Ok(Cal(ymd.d))
             ELSE IF dmy.exc = "" THEN Ok(Cal(dmy.d))
             ELSE Raise("ValidationError")

(***************************************************************************)
(* Timestamps as the API writes them.                                      *)
(***************************************************************************)
\* the wall clock: the epoch second of tick 0 and the seconds of one tick
ClockEpoch == 1705327200
ClockStep == 3600

\* the decimal digits of n, zero-padded to width w
RECURSIVE ToDigits(_, _)
ToDigits(n, w) ==
    IF w = 0 THEN <<>> ELSE ToDigits(n \div 10, w - 1) \o <<Digits[(n % 10) + 1]>>

\* the wall time of a datetime in the configured zone
WallTime(dt) ==
    IF dt.d # <<>> THEN dt.d ELSE FromTimestamp(ClockEpoch + dt.n * ClockStep)

\* the UTC offset of the configured zone as isoformat writes it
OffsetText ==
    LET m == IF TzOffsetMinutes < 0 THEN 0 - TzOffsetMinutes ELSE TzOffsetMinutes
    IN  <<IF TzOffsetMinutes < 0 THEN "-" ELSE "+">>
            \o ToDigits(m \div 60, 2) \o <<":">> \o ToDigits(m % 60, 2)

\* datetime.isoformat() of an aware datetime without microseconds
isoformat(w) ==
    ToDigits(w[1], 4) \o <<"-">> \o ToDigits(w[2], 2) \o <<"-">>
        \o ToDigits(w[3], 2) \o <<"T">> \o ToDigits(w[4], 2) \o <<":">>
        \o ToDigits(w[5], 2) \o <<":">> \o ToDigits(w[6], 2) \o OffsetText

\* the texts of the ticks of the wall clock, tabulated
StampText == [c \in 0..(MaxClock + MaxPassClock) |-> isoformat(WallTime(Stamp(c)))]

\* to_iso of serialize_inventory
to_iso(dt) ==
    IF dt.t # "dt" THEN Null
    ELSE IF dt.d = <<>> /\ dt.n \in DOMAIN StampText THEN Str(StampText[dt.n])
    ELSE Str(isoformat(WallTime(dt)))

\* serialize_inventory
serialize_inventory(inv) ==
    [machine_id |-> Str(inv.machine_id), hostname |-> inv.hostname,
     ip |-> inv.ip, os |-> inv.os, os_version |-> inv.os_version,
     cpu_percent |-> inv.cpu_percent,
     memory_total_mb |-> inv.memory_total_mb,
     memory_used_mb |-> inv.memory_used_mb,
     computer_model |-> inv.computer_model,
     computer_activation |-> to_iso(inv.computer_activation),
     activation_days |-> inv.activation_days,
     created_at |-> to_iso(inv.created_at),
     updated_at |-> to_iso(inv.updated_at)]

(***************************************************************************)
(* The inventory table and its rows.                                       *)
(***************************************************************************)
\* db.String(n) widths the service truncates to
HostnameLen == 100
IpLen == 45
OsLen == 100
OsVersionLen == 100
ComputerModelLen == 100

\* a required list that forgets "ip"
required_without_ip == <<"machine_id", "hostname", "os", "cpu_percent", "memory_total_mb">>

\* the required keys of an observation, in the order the service lists them
required == <<"machine_id", "hostname", "ip", "os", "cpu_percent", "memory_total_mb">>

\* [k for k in required if k not in data]
missing(data) == SelectSeq(required, LAMBDA k : k \notin DOMAIN data)

\* the first exception raised by a sequence of evaluations, "" when none
FirstExc(results) ==
    LET bad == {k \in 1..Len(results) : results[k].exc # ""}
    IN  IF bad = {} THEN ""
        ELSE results[CHOOSE k \in bad : \A j \in bad : k <= j].exc

\* the eight core attributes computed from an observation, in the order the
\* service evaluates them
core_fields(data) ==
    LET h == Slice(data["hostname"], HostnameLen)
        i == Slice(data["ip"], IpLen)
        o == Slice(data["os"], OsLen)
        gv == Get(data, "os_version")
        ov == Slice(IF Truthy(gv) THEN gv ELSE Str(<<>>), OsVersionLen)
        c == py_float(data["cpu_percent"])
        mt == py_int(data["memory_total_mb"])
        gu == Get(data, "memory_used_mb")
        mu == py_int(IF Truthy(gu) THEN gu ELSE Num(0))
        gm == Get(data, "computer_model")
        cm == IF Truthy(gm) THEN Slice(gm, ComputerModelLen) ELSE Ok(Null)
    IN  [exc |-> FirstExc(<<h, i, o, ov, c, mt, mu, cm>>),
         hostname |-> h.v, ip |-> i.v, os |-> o.v, os_version |-> ov.v,
         cpu_percent |-> c.v, memory_total_mb |-> mt.v,
         memory_used_mb |-> mu.v, computer_model |-> cm.v]

\* computer_activation read with data.get: an absent key clears the field
activation_field_get(data, prior) ==
    parse_datetime(Get(data, "computer_activation"))

\* if "computer_activation" in data: ... = _parse_datetime(data[...])
activation_field(data, prior) ==
    IF "computer_activation" \in DOMAIN data
    THEN parse_datetime(data["computer_activation"])
    ELSE Ok(prior)

\* if "activation_days" in data: ... = int(v) if v is not None else None
days_field(data, prior) ==
    IF "activation_days" \in DOMAIN data
    THEN (IF data["activation_days"].t # "null"
          THEN py_int(data["activation_days"]) ELSE Ok(Null))
    ELSE Ok(prior)

\* the assignments of the update branch, stamping created_at again
assign_core_restamp(existing, core) ==
    [existing EXCEPT !.hostname = core.hostname, !.ip = core.ip,
                     !.os = core.os, !.os_version = core.os_version,
                     !.cpu_percent = core.cpu_percent,
                     !.memory_total_mb = core.memory_total_mb,
                     !.memory_used_mb = core.memory_used_mb,
                     !.computer_model = core.computer_model,
                     !.created_at = Stamp(clock)]

\* the assignments of the update branch as a sparse merge: an empty
\* os_version keeps the stored one
assign_core_sparse(existing, core) ==
    [existing EXCEPT !.hostname = core.hostname, !.ip = core.ip,
                     !.os = core.os,
                     !.os_version = IF core.os_version.s = <<>> THEN @
                                    ELSE core.os_version,
                     !.cpu_percent = core.cpu_percent,
                     !.memory_total_mb = core.memory_total_mb,
                     !.memory_used_mb = core.memory_used_mb,
                     !.computer_model = core.computer_model]

\* the assignments of the update branch to the object loaded from the store
assign_core(existing, core) ==
    [existing EXCEPT !.hostname = core.hostname, !.ip = core.ip,
                     !.os = core.os, !.os_version = core.os_version,
                     !.cpu_percent = core.cpu_percent,
                     !.memory_total_mb = core.memory_total_mb,
                     !.memory_used_mb = core.memory_used_mb,
                     !.computer_model = core.computer_model]

\* updated_at stamped only while it is still null
touch_once(obj, now) ==
    IF obj.updated_at.t = "null" THEN [obj EXCEPT !.updated_at = now] ELSE obj

\* existing.updated_at = datetime.now(tz)
touch(obj, now) == [obj EXCEPT !.updated_at = now]

\* Inventory(machine_id=..., ..., created_at=now_tz)
new_inventory(data, core, now) ==
    [machine_id |-> data["machine_id"].s,
     hostname |-> core.hostname, ip |-> core.ip, os |-> core.os,
     os_version |-> core.os_version, cpu_percent |-> core.cpu_percent,
     memory_total_mb |-> core.memory_total_mb,
     memory_used_mb |-> core.memory_used_mb,
     computer_model |-> core.computer_model,
     computer_activation |-> Null, activation_days |-> Null,
     created_at |-> now, updated_at |-> Null]

\* the before_insert hook of the model
ensure_created_at(target, now) ==
    IF target.created_at.t = "null" THEN [target EXCEPT !.created_at = now]
    ELSE target

(***************************************************************************)
(* The session: the objects loaded from the store whose attributes were    *)
(* assigned and not yet committed.  The store: the committed rows.         *)
(***************************************************************************)
\* db.session.get(Inventory, id): the object of the identity map, else the row
SessionGet(id) ==
    IF \E o \in session : o.machine_id = id
    THEN {o \in session : o.machine_id = id}
    ELSE {r \in db : r.machine_id = id}

\* a flush that writes the dirty objects as further rows
UpdateRows_append(rows, objs) == rows \cup objs

\* the flush of dirty objects: UPDATE inventory SET ... WHERE machine_id = ...
UpdateRows(rows, objs) ==
    {IF \E o \in objs : o.machine_id = r.machine_id
     THEN CHOOSE o \in objs : o.machine_id = r.machine_id
     ELSE r : r \in rows}

\* the primary key of the table: an INSERT of a present key is refused
PrimaryKeyFree(rows, obj) == \A r \in rows : r.machine_id # obj.machine_id

\* INSERT INTO inventory
InsertRow(rows, obj) == rows \cup {obj}

\* DELETE FROM inventory WHERE machine_id = ...
DeleteRow(rows, id) == {r \in rows : r.machine_id # id}

\* the objects that stay dirty: those that differ from their row
Dirty(objs) == {o \in objs : o \notin db}

\* what a service call leaves behind: the store, the session, and what it
\* returned or raised (error = "" when it returned)
Out(rows, sess, created, error, original, miss) ==
    [db |-> rows, session |-> sess, created |-> created,
     error |-> error, original_error |-> original, missing_fields |-> miss]

\* db.session.rollback(); raise DatabaseError(..., original_error=e)
RollbackError(original) ==
    Out(db, {}, FALSE, "DatabaseError", original, <<>>)

\* the status_code of the service exceptions
status_code(error) ==
    CASE error = "ValidationError" -> 400
      [] error = "NotFoundError" -> 404
      [] OTHER -> 500

(***************************************************************************)
(* The service operations.  fault tells whether the storage refuses the    *)
(* commit of this call (locked or unwritable database).                    *)
(***************************************************************************)
\* the branch of create_or_update for a machine_id the session finds
update_existing(data, found, fault) ==
    LET existing == CHOOSE o \in found : TRUE
        core == core_fields(data)
        obj1 == assign_core(existing, core)
        act == activation_field(data, existing.computer_activation)
        days == days_field(data, existing.activation_days)
        obj2 == touch([obj1 EXCEPT !.computer_activation = act.v,
                                   !.activation_days = days.v], Stamp(clock))
    IN  IF core.exc # "" THEN RollbackError(core.exc)
        ELSE IF act.exc = "ValidationError"
        THEN Out(db, Dirty((session \ found) \cup {obj1}), FALSE,
                 "ValidationError", "", <<>>)
        ELSE IF days.exc # "" THEN RollbackError(days.exc)
        ELSE IF fault THEN RollbackError("OperationalError")
        ELSE Out(UpdateRows(db, (session \ found) \cup {obj2}), {}, FALSE,
                 "", "", <<>>)

\* the branch of create_or_update for a machine_id the session does not find
create_new(data, fault) ==
    LET core == core_fields(data)
        inv0 == new_inventory(data, core, Stamp(clock))
        act == activation_field(data, Null)
        days == days_field(data, Null)
        inv == [inv0 EXCEPT !.computer_activation = act.v,
                            !.activation_days = days.v]
        flushed == UpdateRows(db, session)
    IN  IF core.exc # "" THEN RollbackError(core.exc)
        ELSE IF act.exc = "ValidationError"
        THEN Out(db, session, FALSE, "ValidationError", "", <<>>)
        ELSE IF days.exc # "" THEN RollbackError(days.exc)
        ELSE IF fault THEN RollbackError("OperationalError")
        ELSE IF ~PrimaryKeyFree(flushed, inv) THEN RollbackError("IntegrityError")
        ELSE Out(InsertRow(flushed, ensure_created_at(inv, Stamp(clock))), {},
                 TRUE, "", "", <<>>)

\* create_or_update without the lookup: every observation is inserted
create_or_update_insert_only(data, fault) ==
    IF missing(data) # <<>>
    THEN Out(db, session, FALSE, "ValidationError", "", missing(data))
    ELSE create_new(data, fault)

\* InventoryService.create_or_update
create_or_update(data, fault) ==
    IF missing(data) # <<>>
    THEN Out(db, session, FALSE, "ValidationError", "", missing(data))
    ELSE LET found == SessionGet(data["machine_id"].s)
         IN  IF found # {} THEN update_existing(data, found, fault)
             ELSE create_new(data, fault)

(***************************************************************************)
(* create_or_update as two requests run it side by side: each request has  *)
(* a session of its own, reads the row when it looks the machine_id up and *)
(* writes when it commits.                                                 *)
(***************************************************************************)
\* the columns of the table
Columns ==
    {"machine_id", "hostname", "ip", "os", "os_version", "cpu_percent",
     "memory_total_mb", "memory_used_mb", "computer_model",
     "computer_activation", "activation_days", "created_at", "updated_at"}

\* the flush of one object: UPDATE inventory SET the attributes whose value
\* is not the one loaded WHERE machine_id = ...; the other columns of the
\* row stay as they are in the store
UpdateChanged(rows, loaded, obj) ==
    {IF r.machine_id = obj.machine_id
     THEN [c \in Columns |-> IF obj[c] # loaded[c] THEN obj[c] ELSE r[c]]
     ELSE r : r \in rows}

\* the update branch for the object a request loaded, committed on the
\* store as it is by then; a row deleted meanwhile matches no UPDATE
commit_update(rows, loaded, data, now, fault) ==
    LET core == core_fields(data)
        obj1 == assign_core(loaded, core)
        act == activation_field(data, loaded.computer_activation)
        days == days_field(data, loaded.activation_days)
        obj2 == touch([obj1 EXCEPT !.computer_activation = act.v,
                                   !.activation_days = days.v], now)
    IN  IF core.exc # "" THEN Out(rows, {}, FALSE, "DatabaseError", core.exc, <<>>)
        ELSE IF act.exc = "ValidationError"
        THEN Out(rows, {}, FALSE, "ValidationError", "", <<>>)
        ELSE IF days.exc # ""
        THEN Out(rows, {}, FALSE, "DatabaseError", days.exc, <<>>)
        ELSE IF fault
        THEN Out(rows, {}, FALSE, "DatabaseError", "OperationalError", <<>>)
        ELSE IF PrimaryKeyFree(rows, obj2)
        THEN Out(rows, {}, FALSE, "DatabaseError", "StaleDataError", <<>>)
        ELSE Out(UpdateChanged(rows, loaded, obj2), {}, FALSE, "", "", <<>>)

\* an INSERT that no primary key stops
commit_insert_unkeyed(rows, data, now, fault) ==
    LET core == core_fields(data)
        inv0 == new_inventory(data, core, now)
        act == activation_field(data, Null)
        days == days_field(data, Null)
        inv == [inv0 EXCEPT !.computer_activation = act.v,
                            !.activation_days = days.v]
    IN  IF core.exc # "" THEN Out(rows, {}, FALSE, "DatabaseError", core.exc, <<>>)
        ELSE IF act.exc = "ValidationError"
        THEN Out(rows, {}, FALSE, "ValidationError", "", <<>>)
        ELSE IF days.exc # ""
        THEN Out(rows, {}, FALSE, "DatabaseError", days.exc, <<>>)
        ELSE IF fault
        THEN Out(rows, {}, FALSE, "DatabaseError", "OperationalError", <<>>)
        ELSE Out(rows \cup {ensure_created_at(inv, now)}, {}, TRUE, "", "", <<>>)

\* the create branch of a request that found no row, committed on the store
\* as it is by then
commit_insert(rows, data, now, fault) ==
    LET core == core_fields(data)
        inv0 == new_inventory(data, core, now)
        act == activation_field(data, Null)
        days == days_field(data, Null)
        inv == [inv0 EXCEPT !.computer_activation = act.v,
                            !.activation_days = days.v]
    IN  IF core.exc # "" THEN Out(rows, {}, FALSE, "DatabaseError", core.exc, <<>>)
        ELSE IF act.exc = "ValidationError"
        THEN Out(rows, {}, FALSE, "ValidationError", "", <<>>)
        ELSE IF days.exc # ""
        THEN Out(rows, {}, FALSE, "DatabaseError", days.exc, <<>>)
        ELSE IF fault
        THEN Out(rows, {}, FALSE, "DatabaseError", "OperationalError", <<>>)
        ELSE IF ~PrimaryKeyFree(rows, inv)
        THEN Out(rows, {}, FALSE, "DatabaseError", "IntegrityError", <<>>)
        ELSE Out(InsertRow(rows, ensure_created_at(inv, now)), {}, TRUE,
                 "", "", <<>>)

\* the rest of create_or_update after the lookup returned found
commit_found(rows, found, data, now, fault) ==
    IF found = {} THEN commit_insert(rows, data, now, fault)
    ELSE commit_update(rows, CHOOSE o \in found : TRUE, data, now, fault)

\* a patch that takes every key it carries for a field to update
updated_fields_any_key(data) ==
    (IF "computer_activation" \in DOMAIN data
     THEN <<"computer_activation">> ELSE <<>>)
    \o (IF "activation_days" \in DOMAIN data
        THEN <<"activation_days">> ELSE <<>>)
    \o (IF "hostname" \in DOMAIN data THEN <<"hostname">> ELSE <<>>)

\* the recognized keys of a patch, in the order the service applies them
updated_fields(data) ==
    (IF "computer_activation" \in DOMAIN data
     THEN <<"computer_activation">> ELSE <<>>)
    \o (IF "activation_days" \in DOMAIN data
        THEN <<"activation_days">> ELSE <<>>)

\* stamping rules other than the service's: every patch stamps / only a
\* field outside the two activation fields stamps
stamps_always(fields) == TRUE
stamps_never_for_activation(fields) ==
    \E k \in 1..Len(fields) :
        fields[k] \notin {"computer_activation", "activation_days"}

\* any(field != "computer_activation" for field in updated_fields)
stamps_updated_at(fields) ==
    \E k \in 1..Len(fields) : fields[k] # "computer_activation"

\* InventoryService.partial_update
partial_update(machine_id, data, fault) ==
    LET found == SessionGet(machine_id)
        inventory == CHOOSE o \in found : TRUE
        act == activation_field(data, inventory.computer_activation)
        days == days_field(data, inventory.activation_days)
        obj == [inventory EXCEPT !.computer_activation = act.v,
                                 !.activation_days = days.v,
                                 !.updated_at =
                                     IF stamps_updated_at(updated_fields(data))
                                     THEN Stamp(clock) ELSE @]
    IN  IF found = {}
        THEN Out(db, session, FALSE, "NotFoundError", "", <<>>)
        ELSE IF act.exc = "ValidationError"
        THEN Out(db, session, FALSE, "ValidationError", "", <<>>)
        ELSE IF days.exc # "" THEN RollbackError(days.exc)
        ELSE IF updated_fields(data) = <<>>
        THEN Out(db, session, FALSE, "ValidationError", "", <<>>)
        ELSE IF fault THEN RollbackError("OperationalError")
        ELSE Out(UpdateRows(db, (session \ found) \cup {obj}), {}, FALSE,
                 "", "", <<>>)

\* a delete that answers an unknown machine_id as done
delete_silent(machine_id, fault) ==
    LET found == SessionGet(machine_id)
    IN  IF found = {}
        THEN Out(db, session, FALSE, "", "", <<>>)
        ELSE IF fault THEN RollbackError("OperationalError")
        ELSE Out(DeleteRow(UpdateRows(db, session \ found), machine_id), {},
                 FALSE, "", "", <<>>)

\* InventoryService.delete
delete(machine_id, fault) ==
    LET found == SessionGet(machine_id)
    IN  IF found = {}
        THEN Out(db, session, FALSE, "NotFoundError", "", <<>>)
        ELSE IF fault THEN RollbackError("OperationalError")
        ELSE Out(DeleteRow(UpdateRows(db, session \ found), machine_id), {},
                 FALSE, "", "", <<>>)

(***************************************************************************)
(* The distributions the service computes for the charts.                  *)
(***************************************************************************)
\* the epoch second of a datetime
Instant(dt) ==
    IF dt.d = <<>> THEN ClockEpoch + dt.n * ClockStep
    ELSE DaysFromCivil(dt.d[1], dt.d[2], dt.d[3]) * 86400 + dt.d[4] * 3600
             + dt.d[5] * 60 + dt.d[6] - TzOffsetMinutes * 60

\* (datetime.now(tz) - activation_date).days
days_diff(now, activation_date) ==
    (Instant(now) - Instant(activation_date)) \div 86400

\* a month of 30 days, in hundredths of a day
MonthOfThirtyDays == 30 * 100

\* months = days_diff / 30.42: the days of a month, in hundredths of a day
MonthHundredths == 3042

\* the age ranges in months, in the order they are tried (the labels are
\* written with a hyphen here)
ranges ==
    <<[min |-> 0, max |-> 12, label |-> "0-12"],
      [min |-> 12, max |-> 36, label |-> "12-36"],
      [min |-> 36, max |-> 60, label |-> "36-60"],
      [min |-> 60, max |-> 120, label |-> "60-120"],
      [min |-> 120, max |-> 9999, label |-> ">120"]>>

\* r["min"] <= m < r["max"] for m = days / 30.42
in_range(r, days) ==
    r.min * MonthHundredths <= days * 100 /\ days * 100 < r.max * MonthHundredths

\* the range that counts an age: the first that matches, 0 when none does
first_range(days) ==
    LET hit == {k \in 1..Len(ranges) : in_range(ranges[k], days)}
    IN  IF hit = {} THEN 0 ELSE CHOOSE k \in hit : \A j \in hit : k <= j

\* InventoryService.get_age_distribution
get_age_distribution(now) ==
    LET computers == {c \in db : c.computer_activation.t # "null"}
        counted(k) ==
            {c \in computers :
                 first_range(days_diff(now, c.computer_activation)) = k}
    IN  [k \in 1..Len(ranges) |->
             [range |-> ranges[k].label, count |-> Cardinality(counted(k))]]

\* func.count(column) of a group: the rows of the group whose column is not null
group_count(column, value) ==
    IF value.t = "null" THEN 0
    ELSE Cardinality({r \in db : r[column] = value})

\* GROUP BY column ORDER BY count DESC: the groups in every order the
\* database may return them, groups of equal count in any order
RECURSIVE ordered_groups(_, _)
ordered_groups(column, values) ==
    IF values = {} THEN {<<>>}
    ELSE LET top == {v \in values : \A w \in values :
                         group_count(column, v) >= group_count(column, w)}
         IN  UNION {{<<[value |-> v, count |-> group_count(column, v)]>> \o rest :
                        rest \in ordered_groups(column, values \ {v})} : v \in top}

\* the rows the two GROUP BY queries may return
query_groups(column) == ordered_groups(column, {r[column] : r \in db})

\* value or "-"
or_dash(v) == IF Truthy(v) THEN v ELSE Str(<<"-">>)

RECURSIVE sum_counts(_)
sum_counts(rows) ==
    IF rows = <<>> THEN 0 ELSE Head(rows).count + sum_counts(Tail(rows))

\* InventoryService.get_os_distribution, given the rows of its query
get_os_distribution(results) ==
    [k \in 1..Len(results) |->
         [os |-> or_dash(results[k].value), count |-> results[k].count]]

\* the label of the bucket that sums the versions below the top
OthersLabel == Str(<<"O", "u", "t", "r", "o", "s">>)

\* a version distribution of the top groups alone
get_version_distribution_top(results, top_n) ==
    [k \in 1..Min(top_n, Len(results)) |->
         [version |-> or_dash(results[k].value), count |-> results[k].count]]

\* a version distribution that appends the remainder bucket even when empty
get_version_distribution_always(results, top_n) ==
    LET top == SubSeq(results, 1, Min(top_n, Len(results)))
        data == [k \in 1..Len(top) |->
                     [version |-> or_dash(top[k].value), count |-> top[k].count]]
    IN  Append(data, [version |-> OthersLabel,
                      count |-> sum_counts(SubSeq(results, Len(top) + 1, Len(results)))])

\* InventoryService.get_version_distribution, given the rows of its query
get_version_distribution(results, top_n) ==
    LET top == SubSeq(results, 1, top_n)
        others_count == sum_counts(SubSeq(results, top_n + 1, Len(results)))
        data == [k \in 1..Len(top) |->
                     [version |-> or_dash(top[k].value), count |-> top[k].count]]
        all == [k \in 1..Len(results) |->
                    [version |-> or_dash(results[k].value),
                     count |-> results[k].count]]
    IN  IF Len(results) > top_n
        THEN (IF others_count # 0
              THEN Append(data, [version |-> OthersLabel, count |-> others_count])
              ELSE data)
        ELSE all

(***************************************************************************)
(* The duplicate removal tool, client/tools/delete_older.py.               *)
(***************************************************************************)
\* the characters of the model in the order of their code points
Alphabet ==
    <<" ", "+", "-", "/", "0", "1", "2", "3", "4", "5", "6", "7", "8", "9", ":",
      "F", "I", "M", "T", "Z", "_", "a", "b", "c", "d", "e", "f", "g", "h",
      "i", "l", "m", "n", "o", "p", "s", "t", "v", "w", "x", "z">>
CharCode(c) == CHOOSE i \in 1..Len(Alphabet) : Alphabet[i] = c

\* s < t for two texts, as the database compares them
RECURSIVE TextLess(_, _)
TextLess(s, t) ==
    IF t = <<>> THEN FALSE
    ELSE IF s = <<>> THEN TRUE
    ELSE IF s[1] # t[1] THEN CharCode(s[1]) < CharCode(t[1])
    ELSE TextLess(Tail(s), Tail(t))

\* InventoryService.list_all("hostname", "asc"): the rows in every order
\* the database may return them, rows of one hostname in any order
RECURSIVE list_all(_)
list_all(rows) ==
    IF rows = {} THEN {<<>>}
    ELSE LET least == {r \in rows : \A q \in rows :
                           ~TextLess(q.hostname.s, r.hostname.s)}
         IN  UNION {{<<r>> \o rest : rest \in list_all(rows \ {r})} : r \in least}

\* GET /machines: the items of the response
list_inventory(rows) ==
    [k \in 1..Len(rows) |-> serialize_inventory(rows[k])]

\* datetime.fromisoformat of a timestamp text as an instant, None when it
\* raises ValueError
parse_iso(s) ==
    LET iso == fromisoformat(s)
    IN  IF iso.exc # "" THEN Null
        ELSE Num(DaysFromCivil(iso.d[1], iso.d[2], iso.d[3]) * 86400
                     + iso.d[4] * 3600 + iso.d[5] * 60 + iso.d[6]
                     - iso.off * 60)

\* parse_iso of the texts of the ticks of the wall clock, tabulated
StampInstant == [c \in DOMAIN StampText |-> parse_iso(StampText[c])]

\* _parse_dt: the instant of a timestamp text, None for none or unreadable
parse_dt(value) ==
    IF ~Truthy(value) \/ Strip(value.s) = <<>> THEN Null
    ELSE LET s0 == Strip(value.s)
             s == IF s0[Len(s0)] = "Z"
                  THEN SubSeq(s0, 1, Len(s0) - 1) \o <<"+", "0", "0", ":", "0", "0">>
                  ELSE s0
         IN  IF \E c \in DOMAIN StampText : StampText[c] = s
             THEN StampInstant[CHOOSE c \in DOMAIN StampText : StampText[c] = s]
             ELSE parse_iso(s)

\* datetime.min, earlier than every instant
DatetimeMin == Num(0 - 2000000000)

\* _score: (updated or created or datetime.min, created or datetime.min)
score(item) ==
    LET updated == parse_dt(Get(item, "updated_at"))
        created == parse_dt(Get(item, "created_at"))
    IN  <<(IF updated.t # "null" THEN updated
           ELSE IF created.t # "null" THEN created ELSE DatetimeMin).n,
          (IF created.t # "null" THEN created ELSE DatetimeMin).n>>

\* a >= b for two scores
score_ge(a, b) == a[1] > b[1] \/ (a[1] = b[1] /\ a[2] >= b[2])

\* the keys sorted() computes, one for each record
scores(registros) == [k \in 1..Len(registros) |-> score(registros[k])]

\* the keys of an ordering by the time of creation alone
scores_por_criacao(registros) ==
    [k \in 1..Len(registros) |-> <<score(registros[k])[2], 0>>]

\* sorted(registros, key=..., reverse=True) for the keys sc: a record comes
\* after the records of a greater key and the records of its own key that
\* came before it
sorted_reverse(registros, sc) ==
    [n \in 1..Len(registros) |->
         registros[CHOOSE k \in 1..Len(registros) :
                       Cardinality({j \in 1..Len(registros) :
                                        \/ ~score_ge(sc[k], sc[j])
                                        \/ (sc[j] = sc[k] /\ j < k)}) = n - 1]]

\* an ordering by the time of creation alone
ordenar_por_criacao(registros) ==
    sorted_reverse(registros, scores_por_criacao(registros))

\* ordenar_registros
ordenar_registros(registros) == sorted_reverse(registros, scores(registros))

\* the hostname as the item carries it
item_hostname_as_stored(item) ==
    LET h == Get(item, "hostname") IN IF Truthy(h) THEN h.s ELSE <<>>

\* (item.get("hostname") or "").strip()
item_hostname(item) ==
    LET h == Get(item, "hostname") IN IF Truthy(h) THEN Strip(h.s) ELSE <<>>

\* grupos: the hostnames in the order of their first item, and the items of
\* a hostname in the order they came
grupos_keys(inventarios) ==
    LET first == {k \in 1..Len(inventarios) :
                      /\ item_hostname(inventarios[k]) # <<>>
                      /\ \A j \in 1..(k - 1) :
                             item_hostname(inventarios[j])
                                 # item_hostname(inventarios[k])}
    IN  [n \in 1..Cardinality(first) |->
             item_hostname(inventarios[
                 CHOOSE k \in first :
                     Cardinality({j \in first : j <= k}) = n])]
grupo(inventarios, hostname) ==
    SelectSeq(inventarios, LAMBDA item : item_hostname(item) = hostname)

\* the machine_ids of ordenados[1:] for the items of one hostname, none when
\* the hostname has a single item
apagar_grupo(registros) ==
    IF Len(registros) <= 1 THEN <<>>
    ELSE [k \in 1..(Len(registros) - 1) |->
              ordenar_registros(registros)[k + 1].machine_id.s]

\* the machine_ids processar removes, in the order it removes them
RECURSIVE apagar(_, _)
apagar(inventarios, keys) ==
    IF keys = <<>> THEN <<>>
    ELSE apagar_grupo(grupo(inventarios, Head(keys)))
             \o apagar(inventarios, Tail(keys))

\* duplicados: the hostnames with more than one item
duplicados(inventarios) ==
    Cardinality({k \in 1..Len(grupos_keys(inventarios)) :
                     Len(grupo(inventarios, grupos_keys(inventarios)[k])) > 1})

(***************************************************************************)
(* The hostnames and reports the activation update tool meets.             *)
(***************************************************************************)
\* the runs of the tool in a row
MaxRuns == 2

\* hostnames with the number 12, the number 7, the number 12 in the middle,
\* and no number
PatchHostnames ==
    {<<"m", "1", "2">>, <<"I", "F", "M", "T", "-", "0", "0", "7">>,
     <<"p", "c", "1", "2", "x">>, <<"p", "c">>}

\* the computer_activation a record has: none, the midnight of 2024-01-15 in
\* the zone, an evening of 2023
PatchActivations ==
    {Null, Cal(<<2024, 1, 15, 0, 0, 0>>), Cal(<<2023, 12, 31, 21, 30, 0>>)}

\* NUMERO -> DATA DA CARGA of a report: dates as DD/MM/YYYY and YYYY-MM-DD,
\* or as DD-MM-YYYY and one no format reads
Indices ==
    {[n \in {<<"1", "2">>, <<"7">>} |->
          IF n = <<"7">>
          THEN <<"2", "0", "2", "4", "-", "0", "2", "-", "0", "1">>
          ELSE <<"1", "5", "/", "0", "1", "/", "2", "0", "2", "4">>],
     [n \in {<<"1", "2">>, <<"7">>} |->
          IF n = <<"7">> THEN <<"s", "/", "d">>
          ELSE <<"3", "1", "-", "1", "2", "-", "2", "0", "2", "3">>]}

(***************************************************************************)
(* The activation update tool (scripts/update_activation.py).              *)
(***************************************************************************)
\* normalizar_numero: the digits of valor without leading zeros
\* the leading zeros of a text of digits
zeros(digitos) ==
    Cardinality({k \in 1..Len(digitos) : \A j \in 1..k : digitos[j] = "0"})
lstrip_zeros(digitos) ==
    IF digitos = <<>> THEN <<>>
    ELSE IF zeros(digitos) = Len(digitos) THEN <<"0">>
    ELSE SubSeq(digitos, zeros(digitos) + 1, Len(digitos))
normalizar_numero(valor) == lstrip_zeros(SelectSeq(valor, IsDigit))

\* re.IGNORECASE for the letters of the patterns
lower(s) ==
    [k \in 1..Len(s) |->
         CASE s[k] = "I" -> "i" [] s[k] = "F" -> "f" [] s[k] = "M" -> "m"
           [] s[k] = "T" -> "t" [] OTHER -> s[k]]

\* the length of the run of digits of s that begins at position i
DigitRun(s, i) ==
    Cardinality({n \in i..Len(s) : \A j \in i..n : IsDigit(s[j])})

\* where (\d+) begins when the pattern is tried at position i: after the
\* literal and, for [-_]?, after one such character if it is there
group_start(s, i, literal, sep) ==
    IF sep /\ i + Len(literal) <= Len(s) /\ s[i + Len(literal)] \in {"-", "_"}
    THEN i + Len(literal) + 1
    ELSE i + Len(literal)

\* the pattern literal[-_]?(\d+) or literal(\d+), with or without $,
\* matches at position i
match_at(s, i, literal, sep, anchored) ==
    /\ i + Len(literal) - 1 <= Len(s)
    /\ SubSeq(lower(s), i, i + Len(literal) - 1) = literal
    /\ DigitRun(s, group_start(s, i, literal, sep)) > 0
    /\ anchored =>
           group_start(s, i, literal, sep)
               + DigitRun(s, group_start(s, i, literal, sep)) - 1 = Len(s)

\* re.search(regex, hostname, re.IGNORECASE): the positions it matches at
search(s, literal, sep, anchored) ==
    {i \in 1..Len(s) : match_at(s, i, literal, sep, anchored)}

\* match.group(1) of the leftmost match
leftmost(positions) == CHOOSE i \in positions : \A j \in positions : i <= j
digits_from(s, b) == SubSeq(s, b, b + DigitRun(s, b) - 1)
group1(s, literal, sep, anchored) ==
    digits_from(s, group_start(s, leftmost(search(s, literal, sep, anchored)),
                               literal, sep))

\* re.findall(r"\d+", hostname)[-1]: the last run of digits
run_starts(s) ==
    {b \in 1..Len(s) : IsDigit(s[b]) /\ (b = 1 \/ ~IsDigit(s[b - 1]))}
rightmost(positions) == CHOOSE i \in positions : \A j \in positions : j <= i
last_digits(s) == digits_from(s, rightmost(run_starts(s)))

\* padroes_preferenciais
ifmt == <<"i", "f", "m", "t">>
padroes_preferenciais ==
    <<[literal |-> ifmt, sep |-> TRUE, anchored |-> TRUE],
      [literal |-> ifmt, sep |-> TRUE, anchored |-> FALSE],
      [literal |-> <<"m">>, sep |-> FALSE, anchored |-> TRUE],
      [literal |-> <<"m">>, sep |-> FALSE, anchored |-> FALSE],
      [literal |-> <<>>, sep |-> FALSE, anchored |-> TRUE]>>

\* the patterns of padroes_preferenciais that match the hostname
padroes(s) ==
    {k \in 1..Len(padroes_preferenciais) :
         search(s, padroes_preferenciais[k].literal,
                padroes_preferenciais[k].sep,
                padroes_preferenciais[k].anchored) # {}}

\* the first of them
primeiro_padrao(s) == padroes_preferenciais[leftmost(padroes(s))]

\* extrair_numero_do_hostname
extrair_numero_do_hostname(hostname) ==
    IF hostname = <<>> THEN <<>>
    ELSE IF padroes(Strip(hostname)) # {}
    THEN normalizar_numero(group1(Strip(hostname),
                                  primeiro_padrao(Strip(hostname)).literal,
                                  primeiro_padrao(Strip(hostname)).sep,
                                  primeiro_padrao(Strip(hostname)).anchored))
    ELSE IF \E k \in 1..Len(hostname) : IsDigit(hostname[k])
    THEN normalizar_numero(last_digits(Strip(hostname)))
    ELSE <<>>

\* dt.strftime("%Y-%m-%d") / date.isoformat()
strftime(d) ==
    ToDigits(d[1], 4) \o <<"-">> \o ToDigits(d[2], 2) \o <<"-">>
        \o ToDigits(d[3], 2)

\* parse_data_para_iso: the date of the report as yyyy-mm-dd, None when no
\* format reads it
parse_data_para_iso(data) ==
    IF Strip(data) = <<>> THEN Null
    ELSE IF strptime(Strip(data), "%d/%m/%Y").exc = ""
    THEN Str(strftime(strptime(Strip(data), "%d/%m/%Y").d))
    ELSE IF strptime(Strip(data), "%Y-%m-%d").exc = ""
    THEN Str(strftime(strptime(Strip(data), "%Y-%m-%d").d))
    ELSE IF strptime(Strip(data), "%d-%m-%Y").exc = ""
    THEN Str(strftime(strptime(Strip(data), "%d-%m-%Y").d))
    ELSE Null

\* Z read as +00:00
z_as_offset(s) ==
    IF s # <<>> /\ s[Len(s)] = "Z"
    THEN SubSeq(s, 1, Len(s) - 1) \o <<"+", "0", "0", ":", "0", "0">>
    ELSE s

\* a reading that takes the text of the API as the date
normalizar_data_api_text(valor) ==
    IF ~Truthy(valor) \/ Strip(valor.s) = <<>> THEN Null
    ELSE Str(Strip(valor.s))

\* normalizar_data_api: the date of the timestamp the API returned, as
\* yyyy-mm-dd
normalizar_data_api(valor) ==
    IF ~Truthy(valor) \/ Strip(valor.s) = <<>> THEN Null
    ELSE IF fromisoformat(z_as_offset(Strip(valor.s))).exc # "" THEN Null
    ELSE Str(strftime(fromisoformat(z_as_offset(Strip(valor.s))).d))

\* extrair_numero_do_hostname of the hostnames, parse_data_para_iso of the
\* dates of the reports and normalizar_data_api of the dates the records
\* carry or are sent, tabulated
NumeroDoHostname ==
    [h \in PatchHostnames |-> extrair_numero_do_hostname(h)]
DataIso ==
    [d \in UNION {{indice[n] : n \in DOMAIN indice} : indice \in Indices} |->
         parse_data_para_iso(d)]
DataApi ==
    [v \in {to_iso(a) : a \in PatchActivations}
               \cup {to_iso(parse_datetime(DataIso[d]).v) : d \in DOMAIN DataIso} |->
         normalizar_data_api(v)]

\* numero_hostname, nova_data_iso and atual_api of the loop of processar
numero_hostname(item) ==
    IF item_hostname_as_stored(item) \in DOMAIN NumeroDoHostname
    THEN NumeroDoHostname[item_hostname_as_stored(item)]
    ELSE extrair_numero_do_hostname(item_hostname_as_stored(item))
nova_data_iso(data) ==
    IF data \in DOMAIN DataIso THEN DataIso[data] ELSE parse_data_para_iso(data)
atual_api(item) ==
    IF Get(item, "computer_activation") \in DOMAIN DataApi
    THEN DataApi[Get(item, "computer_activation")]
    ELSE normalizar_data_api(Get(item, "computer_activation"))

\* indice.get(numero_hostname) of the item, "" when the hostname has no
\* number or the report no date for it
data_relatorio(indice, item) ==
    IF numero_hostname(item) \in DOMAIN indice
    THEN indice[numero_hostname(item)]
    ELSE <<>>

\* the item gets a PATCH: its hostname has a number, the report a date for
\* it that a format reads, and the API returned another date
desatualizado(indice, item) ==
    /\ numero_hostname(item) # <<>>
    /\ data_relatorio(indice, item) # <<>>
    /\ Truthy(nova_data_iso(data_relatorio(indice, item)))
    /\ atual_api(item) # nova_data_iso(data_relatorio(indice, item))

\* the PATCH requests of processar in the order of the items: machine_id
\* and nova_data_iso
pedidos(indice, items) ==
    [k \in 1..Len(items) |->
         <<items[k].machine_id.s,
           nova_data_iso(data_relatorio(indice, items[k]))>>]
atualizacoes(indice, inventarios) ==
    pedidos(indice,
            SelectSeq(inventarios, LAMBDA item : desatualizado(indice, item)))

\* json.dumps({"computer_activation": nova_data_iso})
corpo(data_iso) == [computer_activation |-> data_iso]

(***************************************************************************)
(* The requests the clients send.                                          *)
(***************************************************************************)
M1 == <<"m", "1">>
M2 == <<"m", "2">>
MachineIds == {M1, M2}

DateText == <<"2", "0", "2", "4", "-", "0", "1", "-", "1", "5">>
BadText == <<"n", "o", "t", "-", "a", "-", "d", "a", "t", "e">>

\* an observation with every key
ObsFull ==
    [machine_id |-> Str(M1), hostname |-> Str(<<"h", "1">>),
     ip |-> Str(<<"i", "1">>), os |-> Str(<<"l", "i", "n">>),
     os_version |-> Str(<<"v", "1">>), cpu_percent |-> Num(10),
     memory_total_mb |-> Num(8), memory_used_mb |-> Num(4),
     computer_model |-> Str(<<"p", "c">>),
     computer_activation |-> Str(DateText), activation_days |-> Num(5)]

\* an observation with the required keys only
ObsMin ==
    [machine_id |-> Str(M1), hostname |-> Str(<<"h", "2">>),
     ip |-> Str(<<"i", "2">>), os |-> Str(<<"w", "i", "n">>),
     cpu_percent |-> Num(20), memory_total_mb |-> Num(16)]

\* the same with both activation keys present and null
ObsClear ==
    [machine_id |-> Str(M1), hostname |-> Str(<<"h", "2">>),
     ip |-> Str(<<"i", "2">>), os |-> Str(<<"w", "i", "n">>),
     cpu_percent |-> Num(20), memory_total_mb |-> Num(16),
     computer_activation |-> Null, activation_days |-> Null]

\* an observation whose computer_activation is no date
ObsBadDate ==
    [machine_id |-> Str(M1), hostname |-> Str(<<"h", "3">>),
     ip |-> Str(<<"i", "3">>), os |-> Str(<<"b", "s", "d">>),
     cpu_percent |-> Num(30), memory_total_mb |-> Num(32),
     computer_activation |-> Str(BadText)]

\* an observation whose cpu_percent is no number
ObsBadCpu ==
    [machine_id |-> Str(M1), hostname |-> Str(<<"h", "2">>),
     ip |-> Str(<<"i", "2">>), os |-> Str(<<"w", "i", "n">>),
     cpu_percent |-> Str(<<"a", "b", "c">>), memory_total_mb |-> Num(16)]

\* observations that lack required keys
ObsMissing ==
    [machine_id |-> Str(M1), os |-> Str(<<"w", "i", "n">>),
     cpu_percent |-> Num(20)]
ObsEmpty == <<>>

\* an observation of a second machine under the hostname of the first
ObsOther ==
    [machine_id |-> Str(M2), hostname |-> Str(<<"h", "1">>),
     ip |-> Str(<<"i", "9">>), os |-> Str(<<"l", "i", "n">>),
     cpu_percent |-> Str(<<"1", "5">>), memory_total_mb |-> Num(8)]

Observations ==
    {ObsFull, ObsMin, ObsClear, ObsBadDate, ObsBadCpu, ObsMissing, ObsEmpty,
     ObsOther}

\* the bodies of PATCH requests
PatchActivation == [computer_activation |-> Str(DateText)]
PatchDays == [activation_days |-> Num(7)]
PatchBoth == [computer_activation |-> Null, activation_days |-> Num(7)]
PatchBadDate == [computer_activation |-> Str(BadText)]
PatchBadDays == [activation_days |-> Str(<<"a", "b", "c">>)]
PatchOther == [hostname |-> Str(<<"z", "z">>)]
PatchEmpty == <<>>

\* the PATCH requests: a machine_id and a body
Patches ==
    {M1} \X {PatchActivation, PatchDays, PatchBoth, PatchBadDate,
             PatchBadDays, PatchOther, PatchEmpty}

(***************************************************************************)
(* The stores the distributions are computed over.                         *)
(***************************************************************************)
\* the largest top_n asked for besides the default
MaxTopN == 2

\* top_n: int = 8
DefaultTopN == 8

M3 == <<"m", "3">>
MetricIds == {M1, M2, M3}

\* activation dates: the wall time of tick 0 a number of days, or of
\* calendar years, earlier
DaysAgo(days) == Cal(ShiftMinutes(WallTime(Stamp(0)), 0 - days * 1440))
YearsAgo(years) == Cal([WallTime(Stamp(0)) EXCEPT ![1] = @ - years])

\* what a record of these stores carries: os, os_version, computer_activation
Profiles ==
    {[os |-> <<"l", "i", "n">>, os_version |-> <<"v", "1">>, activation |-> Null],
     [os |-> <<"l", "i", "n">>, os_version |-> <<"v", "1">>, activation |-> DaysAgo(0)],
     [os |-> <<"w", "i", "n">>, os_version |-> <<"v", "2">>, activation |-> DaysAgo(0 - 1)],
     [os |-> <<"w", "i", "n">>, os_version |-> <<>>, activation |-> DaysAgo(365)],
     [os |-> <<>>, os_version |-> <<"v", "2">>, activation |-> DaysAgo(366)],
     [os |-> <<"l", "i", "n">>, os_version |-> <<"v", "3">>, activation |-> YearsAgo(11)],
     [os |-> <<"w", "i", "n">>, os_version |-> <<"v", "1">>, activation |-> DaysAgo(3650)],
     [os |-> <<"b", "s", "d">>, os_version |-> <<"v", "3">>, activation |-> DaysAgo(3651)]}

\* the record a reconcile at tick 0 creates for a profile, with its activation
MetricRow(id, p) ==
    LET data == [machine_id |-> Str(id), hostname |-> Str(<<"h">> \o id),
                 ip |-> Str(<<"i">>), os |-> Str(p.os),
                 os_version |-> Str(p.os_version), cpu_percent |-> Num(10),
                 memory_total_mb |-> Num(8)]
    IN  [new_inventory(data, core_fields(data), Stamp(0))
             EXCEPT !.computer_activation = p.activation]

\* ten versions, the j-th on j records
TenVersions ==
    UNION {{MetricRow(<<"t">> \o ToDigits(j, 2) \o ToDigits(i, 2),
                      [os |-> <<"l", "i", "n">>,
                       os_version |-> <<"w", Digits[j]>>,
                       activation |-> Null]) : i \in 1..j} : j \in 1..10}

\* a store: some of the ids, each with a profile; or the ten versions
MetricStores ==
    UNION {{{MetricRow(id, f[id]) : id \in ids} : f \in [ids -> Profiles]} :
               ids \in SUBSET MetricIds}
        \cup {TenVersions}

TopNs == (0..MaxTopN) \cup {DefaultTopN}

(***************************************************************************)
(* The stores the duplicate removal tool runs over.                        *)
(***************************************************************************)
\* a machine_id with a blank in it
MBlank == <<"m", " ", "3">>
DedupIds == {M1, M2, MBlank}

\* the hostnames of these stores: two that differ by a trailing blank, a
\* third, and one of blanks alone
DedupHostnames == {<<"h">>, <<"h", " ">>, <<"g">>, <<" ">>}

\* the ticks a record of these stores was created and last updated at
DedupTimes ==
    {[created |-> 0, updated |-> Null], [created |-> 1, updated |-> Null],
     [created |-> 0, updated |-> Stamp(1)], [created |-> 0, updated |-> Stamp(2)]}

\* the record a reconcile creates for a hostname, with its two timestamps
DedupRow(id, hostname, times) ==
    LET data == [machine_id |-> Str(id), hostname |-> Str(hostname),
                 ip |-> Str(<<"i">>), os |-> Str(<<"l", "i", "n">>),
                 cpu_percent |-> Num(10), memory_total_mb |-> Num(8)]
    IN  [new_inventory(data, core_fields(data), Stamp(times.created))
             EXCEPT !.updated_at = times.updated]

\* a store: some of the ids, each with a hostname and its timestamps
DedupStores ==
    UNION {{{DedupRow(id, f[id][1], f[id][2]) : id \in ids} :
                f \in [ids -> DedupHostnames \X DedupTimes]} :
               ids \in SUBSET DedupIds}

\* how a request of the tool ends on the wire: answered, refused by the
\* host, or the connection reset before the answer
Wire == {"ok", "refused", "reset"}

(***************************************************************************)
(* The stores the activation update tool runs over.                        *)
(***************************************************************************)
\* a store: some of the two ids, each with a hostname and an activation,
\* the first updated at tick 1 and the second never
PatchStores ==
    UNION {{{[DedupRow(id, f[id][1],
                           [created |-> 0,
                            updated |-> IF id = M1 THEN Stamp(1) ELSE Null])
                  EXCEPT !.computer_activation = f[id][2]] : id \in ids} :
                f \in [ids -> PatchHostnames \X PatchActivations]} :
               ids \in SUBSET {M1, M2}}

(***************************************************************************)
(* Two requests for one machine at a time.                                 *)
(***************************************************************************)
\* the requests in flight
Slots == {1, 2}

\* what the agent of one machine may report: the observation the stored
\* record was made from, one with another hostname, one with another os,
\* one with an activation date
RaceBase ==
    [machine_id |-> Str(M1), hostname |-> Str(<<"h">>), ip |-> Str(<<"i">>),
     os |-> Str(<<"l", "i", "n">>), cpu_percent |-> Num(10),
     memory_total_mb |-> Num(8)]
RaceObs ==
    {RaceBase,
     [RaceBase EXCEPT !.hostname = Str(<<"g">>)],
     [RaceBase EXCEPT !.os = Str(<<"w", "i", "n">>)],
     [k \in DOMAIN RaceBase \cup {"computer_activation"} |->
          IF k = "computer_activation" THEN Str(DateText) ELSE RaceBase[k]]}

\* the store before the requests: empty, or the record of the machine
RaceStores ==
    {{}, {new_inventory(RaceBase, core_fields(RaceBase), Stamp(0))}}

(***************************************************************************)
(* Observations at and beyond the limits of the fields.                    *)
(***************************************************************************)
\* a text of n characters
Long(n) == [i \in 1..n |-> "x"]

LimitBase ==
    [machine_id |-> Str(M1), hostname |-> Str(<<"h">>), ip |-> Str(<<"i">>),
     os |-> Str(<<"l", "i", "n">>), os_version |-> Str(<<"v", "1">>),
     cpu_percent |-> Num(10), memory_total_mb |-> Num(8),
     memory_used_mb |-> Num(4), computer_model |-> Str(<<"p", "c">>)]

\* what one machine reports: ordinary values, negative numbers, negative
\* numbers as text, texts one character longer than the columns, and texts
\* as long as the columns
LimitObs ==
    {LimitBase,
     [LimitBase EXCEPT !.cpu_percent = Num(0 - 5)],
     [LimitBase EXCEPT !.memory_total_mb = Num(0 - 1),
                       !.memory_used_mb = Str(<<"-", "2">>)],
     [LimitBase EXCEPT !.hostname = Str(Long(HostnameLen + 1)),
                       !.ip = Str(Long(IpLen + 1)),
                       !.os = Str(Long(OsLen + 1)),
                       !.os_version = Str(Long(OsVersionLen + 1)),
                       !.computer_model = Str(Long(ComputerModelLen + 1))],
     [LimitBase EXCEPT !.hostname = Str(Long(HostnameLen)),
                       !.ip = Str(Long(IpLen)),
                       !.os = Str(Long(OsLen)),
                       !.os_version = Str(Long(OsVersionLen)),
                       !.computer_model = Str(Long(ComputerModelLen))]}

(***************************************************************************)
(* The timestamps _parse_datetime is given.                                *)
(***************************************************************************)
\* calendar dates, one of them not of the calendar; times of day; offsets
NormDates ==
    {<<2024, 1, 15>>, <<2024, 2, 29>>, <<2023, 2, 29>>, <<2024, 12, 31>>,
     <<2024, 1, 1>>}
NormTimes == {<<0, 0, 0>>, <<10, 0, 0>>, <<23, 30, 0>>, <<2, 0, 0>>}
NormOffsets ==
    [none |-> <<>>, z |-> <<"Z">>,
     utc |-> <<"+", "0", "0", ":", "0", "0">>,
     west |-> <<"-", "0", "4", ":", "0", "0">>,
     east |-> <<"+", "0", "5", ":", "3", "0">>]

\* a number without leading zero
Decimal(n) == IF n < 10 THEN ToDigits(n, 1) ELSE ToDigits(n, 2)

\* what is given: a date alone as YYYY-MM-DD, DD/MM/YYYY, Y-M-D or D/M/Y, a
\* date and a time joined by "T" or a blank with or without offset, or
\* another value as it is (raw)
NormInputs ==
    {[form |-> f, date |-> d, time |-> <<0, 0, 0>>, off |-> "none", raw |-> Null] :
         f \in {"ymd", "dmy", "y-m-d", "d/m/y", "padded"}, d \in NormDates}
    \cup {[form |-> f, date |-> d, time |-> t, off |-> o, raw |-> Null] :
              f \in {"T", " "}, d \in NormDates, t \in NormTimes,
              o \in DOMAIN NormOffsets}
    \cup {[form |-> "raw", date |-> <<>>, time |-> <<>>, off |-> "none", raw |-> v] :
              v \in {Null, Str(<<>>), Str(<<" ", " ">>), Str(BadText),
                     Num(ClockEpoch)}}

\* the text of what is given
NormText(p) ==
    LET ymd == ToDigits(p.date[1], 4) \o <<"-">> \o ToDigits(p.date[2], 2)
                   \o <<"-">> \o ToDigits(p.date[3], 2)
        hms == ToDigits(p.time[1], 2) \o <<":">> \o ToDigits(p.time[2], 2)
                   \o <<":">> \o ToDigits(p.time[3], 2)
    IN  CASE p.form = "ymd" -> ymd
          [] p.form = "padded" -> <<" ">> \o ymd \o <<" ">>
          [] p.form = "dmy" ->
                 ToDigits(p.date[3], 2) \o <<"/">> \o ToDigits(p.date[2], 2)
                     \o <<"/">> \o ToDigits(p.date[1], 4)
          [] p.form = "y-m-d" ->
                 ToDigits(p.date[1], 4) \o <<"-">> \o Decimal(p.date[2])
                     \o <<"-">> \o Decimal(p.date[3])
          [] p.form = "d/m/y" ->
                 Decimal(p.date[3]) \o <<"/">> \o Decimal(p.date[2])
                     \o <<"/">> \o ToDigits(p.date[1], 4)
          [] OTHER -> ymd \o <<p.form>> \o hms \o NormOffsets[p.off]
NormValue(p) == IF p.form = "raw" THEN p.raw ELSE Str(NormText(p))

(***************************************************************************)
(* The state machine.                                                      *)
(***************************************************************************)
\* the same text whatever was given
message_fixed(id, data, out) ==
    CASE out.error = "ValidationError" /\ out.missing_fields # <<>> ->
             <<"Missing required fields: ", out.missing_fields>>
      [] out.error = "ValidationError" -> <<"Invalid datetime format", <<>>>>
      [] out.error = "NotFoundError" -> <<"Inventory not found: ", id>>
      [] OTHER -> <<"Failed: ", out.original_error>>

\* e.message of the service exceptions: the text and what is formatted into it
\* (a ValidationError without missing fields is the one _parse_datetime
\* raised on data["computer_activation"], which carries the value's repr, or
\* the one partial_update raises when neither activation key is in the patch)
message(id, data, out) ==
    CASE out.error = "ValidationError" /\ out.missing_fields # <<>> ->
             <<"Missing required fields: ", out.missing_fields>>
      [] out.error = "ValidationError" ->
             IF "computer_activation" \in DOMAIN data
             THEN <<"Invalid datetime format: ", data["computer_activation"]>>
             ELSE <<"No valid fields provided for update", <<>>>>
      [] out.error = "NotFoundError" -> <<"Inventory not found: ", id>>
      [] OTHER -> <<"Failed: ", out.original_error>>

\* the JSON body the routes answer with: {"error"} when the service raised,
\* else {"message", "item"}, {"message"} for a delete
json_body(op, id, data, out) ==
    IF out.error # "" THEN [error |-> message(id, data, out)]
    ELSE IF op = "delete" THEN [message |-> "removed"]
    ELSE [message |-> IF out.created THEN "added" ELSE "updated",
          item |-> serialize_inventory(CHOOSE r \in out.db : r.machine_id = id)]

\* the request last served and its response
Response(op, id, data, out) ==
    [op |-> op, id |-> id, data |-> data,
     status |-> IF out.error = "" THEN (IF out.created THEN 201 ELSE 200)
                ELSE status_code(out.error),
     body |-> json_body(op, id, data, out),
     created |-> out.created, error |-> out.error,
     original_error |-> out.original_error,
     missing_fields |-> out.missing_fields]

\* nothing reported, no run of the tool, no concurrent request
NoReport == [op |-> "", top_n |-> 0, now |-> Null, data |-> <<>>]
NoRun ==
    [pc |-> "idle", dry_run |-> FALSE, inventarios |-> <<>>, apagar |-> <<>>,
     fila |-> <<>>, duplicados |-> 0, removidos |-> 0, ignorados |-> 0,
     erros |-> <<>>, raised |-> ""]
NoTxn == <<>>

NoRequest ==
    [op |-> "", id |-> <<>>, data |-> <<>>, status |-> 0, body |-> <<>>,
     created |-> FALSE, error |-> "", original_error |-> "",
     missing_fields |-> <<>>]

Init ==
    /\ db = {}
    /\ session = {}
    /\ clock = 0
    /\ last = NoRequest
    /\ report = NoReport
    /\ tool = NoRun
    /\ txn = NoTxn

\* POST /machines
add_inventory(data, fault) ==
    LET out == create_or_update(data, fault)
        id == IF "machine_id" \in DOMAIN data THEN data["machine_id"].s ELSE <<>>
    IN  /\ db' = out.db
        /\ session' = out.session
        /\ last' = Response("create_or_update", id, data, out)
        /\ UNCHANGED <<clock, others>>

\* PATCH /machines/<machine_id>
update_inventory(machine_id, data, fault) ==
    LET out == partial_update(machine_id, data, fault)
    IN  /\ db' = out.db
        /\ session' = out.session
        /\ last' = Response("partial_update", machine_id, data, out)
        /\ UNCHANGED <<clock, others>>

\* DELETE /machines/<machine_id>
delete_inventory(machine_id, fault) ==
    LET out == delete(machine_id, fault)
    IN  /\ db' = out.db
        /\ session' = out.session
        /\ last' = Response("delete", machine_id, <<>>, out)
        /\ UNCHANGED <<clock, others>>

\* the session is removed when the application context of a request ends
shutdown_session ==
    /\ session # {}
    /\ session' = {}
    /\ UNCHANGED <<db, clock, last, others>>

\* time passes
Tick ==
    /\ clock < MaxClock
    /\ clock' = clock + 1
    /\ UNCHANGED <<db, session, last, others>>

Next ==
    \/ \E data \in Observations, fault \in BOOLEAN : add_inventory(data, fault)
    \/ \E p \in Patches, fault \in BOOLEAN : update_inventory(p[1], p[2], fault)
    \/ \E id \in MachineIds, fault \in BOOLEAN : delete_inventory(id, fault)
    \/ shutdown_session
    \/ Tick

Spec == Init /\ [][Next]_vars

(***************************************************************************)
(* The distributions computed over a store, at the times of the wall clock. *)
(***************************************************************************)
InitMetrics ==
    /\ db \in MetricStores
    /\ session = {}
    /\ clock = 0
    /\ last = NoRequest
    /\ report = NoReport
    /\ tool = NoRun
    /\ txn = NoTxn

\* InventoryService.get_age_distribution()
age_distribution ==
    /\ report' = [op |-> "age", top_n |-> 0, now |-> Stamp(clock),
                  data |-> get_age_distribution(Stamp(clock))]
    /\ UNCHANGED <<db, session, clock, last, tool, txn>>

\* InventoryService.get_version_distribution(top_n)
version_distribution(results, top_n) ==
    /\ report' = [op |-> "version", top_n |-> top_n, now |-> Stamp(clock),
                  data |-> get_version_distribution(results, top_n)]
    /\ UNCHANGED <<db, session, clock, last, tool, txn>>

\* InventoryService.get_os_distribution()
os_distribution(results) ==
    /\ report' = [op |-> "os", top_n |-> 0, now |-> Stamp(clock),
                  data |-> get_os_distribution(results)]
    /\ UNCHANGED <<db, session, clock, last, tool, txn>>

NextMetrics ==
    \/ age_distribution
    \/ \E results \in query_groups("os_version"), top_n \in TopNs :
           version_distribution(results, top_n)
    \/ \E results \in query_groups("os") : os_distribution(results)
    \/ Tick

SpecMetrics == InitMetrics /\ [][NextMetrics]_vars

(***************************************************************************)
(* A pass of the duplicate removal tool over a store.                      *)
(***************************************************************************)
InitDedup ==
    /\ db \in DedupStores
    /\ session = {}
    /\ clock = 2
    /\ last = NoRequest
    /\ report = NoReport
    /\ tool = NoRun
    /\ txn = NoTxn

\* the exception urlopen raises for DELETE /machines/<machine_id>, "" when
\* the request is answered with 200: a blank in the URL is refused before
\* anything is sent (http.client.InvalidURL), a refused connection is a
\* URLError, a reset while the answer is read is passed on unwrapped, a
\* status of 400 or more is an HTTPError
urlopen_delete(machine_id, wire, out) ==
    IF \E k \in 1..Len(machine_id) : machine_id[k] = " " THEN "InvalidURL"
    ELSE IF wire = "refused" THEN "URLError"
    ELSE IF wire = "reset" THEN "ConnectionResetError"
    ELSE IF out.error # "" THEN "HTTPError"
    ELSE ""

\* the counters of processar before its first DELETE; a dry run counts
\* every record it would remove as ignored
contadores(dry_run, inventarios, plan) ==
    [pc |-> IF dry_run \/ plan = <<>> THEN "done" ELSE "deleting",
     dry_run |-> dry_run, inventarios |-> inventarios, apagar |-> plan,
     fila |-> IF dry_run THEN <<>> ELSE plan,
     duplicados |-> duplicados(inventarios), removidos |-> 0,
     ignorados |-> IF dry_run THEN Len(plan) ELSE 0,
     erros |-> <<>>, raised |-> ""]

\* processar up to its first DELETE: fetch_inventory, the groups, and for a
\* dry run the whole pass
processar(dry_run, inventarios) ==
    /\ tool.pc = "idle"
    /\ tool' = contadores(dry_run, inventarios,
                          apagar(inventarios, grupos_keys(inventarios)))
    /\ UNCHANGED <<db, session, clock, last, report, txn>>

\* one turn of the loop over ordenados[1:]: delete_inventory and its
\* except clauses; any other exception ends processar
processar_delete(fault, wire) ==
    LET machine_id == Head(tool.fila)
        rest == Tail(tool.fila)
        out == delete(machine_id, fault)
        exc == urlopen_delete(machine_id, wire, out)
        served == exc \in {"", "HTTPError"}
    IN  /\ tool.pc = "deleting"
        /\ db' = IF served THEN out.db ELSE db
        /\ session' = IF served THEN out.session ELSE session
        /\ last' = IF served THEN Response("delete", machine_id, <<>>, out)
                   ELSE last
        /\ tool' = IF exc = ""
                   THEN [tool EXCEPT !.removidos = @ + 1, !.fila = rest,
                                     !.pc = IF rest = <<>> THEN "done" ELSE @]
                   ELSE IF exc \in {"HTTPError", "URLError"}
                   THEN [tool EXCEPT !.erros = Append(@, <<exc, machine_id>>),
                                     !.fila = rest,
                                     !.pc = IF rest = <<>> THEN "done" ELSE @]
                   ELSE [tool EXCEPT !.pc = "aborted", !.raised = exc]
        /\ UNCHANGED <<clock, report, txn>>

NextDedup ==
    \/ \E dry_run \in BOOLEAN, rows \in list_all(db) :
           processar(dry_run, list_inventory(rows))
    \/ \E fault \in BOOLEAN, wire \in Wire : processar_delete(fault, wire)

SpecDedup == InitDedup /\ [][NextDedup]_vars

(***************************************************************************)
(* A pass of the tool while the agents go on reporting.                    *)
(***************************************************************************)
\* two records of one hostname, and what the agents of the two machines
\* report meanwhile
ReingestStores ==
    {{DedupRow(M1, <<"h">>, t1), DedupRow(M2, <<"h">>, t2)} :
         t1 \in DedupTimes, t2 \in DedupTimes}
ReingestObs ==
    {[machine_id |-> Str(id), hostname |-> Str(h), ip |-> Str(<<"i">>),
      os |-> Str(<<"l", "i", "n">>), cpu_percent |-> Num(10),
      memory_total_mb |-> Num(8)] : id \in {M1, M2}, h \in {<<"h">>}}

InitReingest ==
    /\ db \in ReingestStores
    /\ session = {}
    /\ clock = 2
    /\ last = NoRequest
    /\ report = NoReport
    /\ tool = NoRun
    /\ txn = NoTxn

\* time passes while the tool runs
PassTick ==
    /\ clock < MaxPassClock
    /\ clock' = clock + 1
    /\ UNCHANGED <<db, session, last, others>>

NextReingest ==
    \/ \E dry_run \in BOOLEAN, rows \in list_all(db) :
           processar(dry_run, list_inventory(rows))
    \/ \E fault \in BOOLEAN, wire \in Wire : processar_delete(fault, wire)
    \/ \E data \in ReingestObs, fault \in BOOLEAN : add_inventory(data, fault)
    \/ PassTick

SpecReingest == InitReingest /\ [][NextReingest]_vars

(***************************************************************************)
(* Two POST /machines requests served at the same time.                    *)
(***************************************************************************)
Waiting == [pc |-> "idle", data |-> <<>>, found |-> {}, out |-> <<>>]

InitRace ==
    /\ db \in RaceStores
    /\ session = {}
    /\ clock = 0
    /\ last = NoRequest
    /\ report = NoReport
    /\ tool = NoRun
    /\ txn = [base |-> db, req |-> [k \in Slots |-> Waiting]]

\* create_or_update up to the lookup: the required keys are there and
\* db.session.get reads the row of the machine_id, if any
lookup(k, data) ==
    /\ txn.req[k].pc = "idle"
    /\ missing(data) = <<>>
    /\ txn' = [txn EXCEPT !.req[k] =
                   [pc |-> "found", data |-> data,
                    found |-> {r \in db : r.machine_id = data["machine_id"].s},
                    out |-> <<>>]]
    /\ UNCHANGED <<db, session, clock, last, report, tool>>

\* create_or_update from the lookup on: the assignments and the commit, or
\* the rollback
commit(k, fault) ==
    LET data == txn.req[k].data
        out == commit_found(db, txn.req[k].found, data, Stamp(clock), fault)
    IN  /\ txn.req[k].pc = "found"
        /\ db' = out.db
        /\ last' = Response("create_or_update", data["machine_id"].s, data, out)
        /\ txn' = [txn EXCEPT !.req[k].pc = "done",
                              !.req[k].out = [created |-> out.created,
                                              error |-> out.error,
                                              original_error |-> out.original_error,
                                              now |-> Stamp(clock)]]
        /\ UNCHANGED <<session, clock, report, tool>>

\* time passes between the requests
RaceTick ==
    /\ clock < MaxClock
    /\ clock' = clock + 1
    /\ UNCHANGED <<db, session, last, report, tool, txn>>

NextRace ==
    \/ \E k \in Slots, data \in RaceObs : lookup(k, data)
    \/ \E k \in Slots, fault \in BOOLEAN : commit(k, fault)
    \/ RaceTick

SpecRace == InitRace /\ [][NextRace]_vars

(***************************************************************************)
(* Reconciles of observations at the limits of the fields.                 *)
(***************************************************************************)
NextLimits ==
    \/ \E data \in LimitObs, fault \in BOOLEAN : add_inventory(data, fault)
    \/ \E id \in MachineIds, fault \in BOOLEAN : delete_inventory(id, fault)
    \/ Tick

SpecLimits == Init /\ [][NextLimits]_vars

(***************************************************************************)
(* _parse_datetime applied to what it is given.                            *)
(***************************************************************************)
\* InventoryService._parse_datetime(value)
normalize(p) ==
    /\ report' = [op |-> "normalize", given |-> p, value |-> NormValue(p),
                  result |-> parse_datetime(NormValue(p))]
    /\ UNCHANGED <<db, session, clock, last, tool, txn>>

NextNormalize == \E p \in NormInputs : normalize(p)

SpecNormalize == Init /\ [][NextNormalize]_vars

(***************************************************************************)
(* Requests whose computer_activation is a date, no date, empty or null.   *)
(***************************************************************************)
\* a day the calendar does not have
NoDayText == <<"2", "0", "2", "4", "-", "0", "2", "-", "3", "0">>

\* what the requests carry as computer_activation
ActivationValues ==
    {Null, Str(<<>>), Str(<<" ", " ">>), Str(DateText), Str(BadText),
     Str(NoDayText)}

\* the body of POST /machines: the required keys, with a computer_activation
DateObs ==
    {ObsMin, ObsBadDate}
    \cup {[k \in DOMAIN ObsMin \cup {"computer_activation"} |->
              IF k = "computer_activation" THEN v ELSE ObsMin[k]] :
                  v \in ActivationValues}

\* the body of PATCH /machines/<id>: a computer_activation, alone or with
\* activation_days
DatePatches ==
    {[computer_activation |-> v] : v \in ActivationValues}
    \cup {[computer_activation |-> v, activation_days |-> Num(7)] :
              v \in ActivationValues}

NextDates ==
    \/ \E data \in DateObs, fault \in BOOLEAN : add_inventory(data, fault)
    \/ \E data \in DatePatches, fault \in BOOLEAN :
           update_inventory(M1, data, fault)
    \/ \E fault \in BOOLEAN : delete_inventory(M1, fault)
    \/ shutdown_session
    \/ Tick

SpecDates == Init /\ [][NextDates]_vars

(***************************************************************************)
(* Runs of the activation update tool over a store.                        *)
(***************************************************************************)
\* no run of the tool yet, with the report it is given
NoUpdate(indice) ==
    [pc |-> "idle", run |-> 0, indice |-> indice, inventarios |-> <<>>,
     fila |-> <<>>, sent |-> <<>>, total_hostnames |-> 0,
     hostnames_com_numero |-> 0, correspondencias |-> 0, atualizados |-> 0,
     erros |-> <<>>, raised |-> "",
     anterior |-> [pc |-> "idle", atualizados |-> 0, erros |-> <<>>]]

InitUpdate ==
    /\ db \in PatchStores
    /\ session = {}
    /\ clock = 2
    /\ last = NoRequest
    /\ report = NoReport
    /\ tool \in {NoUpdate(indice) : indice \in Indices}
    /\ txn = NoTxn

\* processar of update_activation.py up to its first PATCH: fetch_inventory,
\* the counters, and the items that get a PATCH; the tool is run for the
\* first time or again after a run that returned, and anterior keeps how
\* that run ended
processar_relatorio(inventarios) ==
    /\ tool.pc \in {"idle", "done"}
    /\ tool.run < MaxRuns
    /\ tool' =
           [pc |-> IF atualizacoes(tool.indice, inventarios) = <<>>
                   THEN "done" ELSE "patching",
            run |-> tool.run + 1, indice |-> tool.indice,
            inventarios |-> inventarios,
            fila |-> atualizacoes(tool.indice, inventarios), sent |-> <<>>,
            total_hostnames |-> Len(inventarios),
            hostnames_com_numero |->
                Len(SelectSeq(inventarios, LAMBDA item :
                        numero_hostname(item) # <<>>)),
            correspondencias |->
                Len(SelectSeq(inventarios, LAMBDA item :
                        data_relatorio(tool.indice, item) # <<>>)),
            atualizados |-> 0, erros |-> <<>>, raised |-> "",
            anterior |-> [pc |-> tool.pc, atualizados |-> tool.atualizados,
                          erros |-> tool.erros]]
    /\ UNCHANGED <<db, session, clock, last, report, txn>>

\* one turn of the loop that has a PATCH to send: atualizar_por_api, served
\* by update_inventory, and the except clauses; any other exception ends
\* the run
atualizar_por_api(fault, wire) ==
    LET machine_id == Head(tool.fila)[1]
        body == corpo(Head(tool.fila)[2])
        rest == Tail(tool.fila)
        out == partial_update(machine_id, body, fault)
        exc == urlopen_delete(machine_id, wire, out)
        served == exc \in {"", "HTTPError"}
    IN  /\ tool.pc = "patching"
        /\ db' = IF served THEN out.db ELSE db
        /\ session' = IF served THEN out.session ELSE session
        /\ last' = IF served
                   THEN Response("partial_update", machine_id, body, out)
                   ELSE last
        /\ tool' = IF exc = ""
                   THEN [tool EXCEPT !.atualizados = @ + 1, !.fila = rest,
                                     !.sent = Append(@, body),
                                     !.pc = IF rest = <<>> THEN "done" ELSE @]
                   ELSE IF exc \in {"HTTPError", "URLError"}
                   THEN [tool EXCEPT !.erros = Append(@, <<exc, machine_id>>),
                                     !.fila = rest,
                                     !.sent = IF served THEN Append(@, body) ELSE @,
                                     !.pc = IF rest = <<>> THEN "done" ELSE @]
                   ELSE [tool EXCEPT !.pc = "aborted", !.raised = exc,
                                     !.sent = IF wire = "reset"
                                              THEN Append(@, body) ELSE @]
        /\ UNCHANGED <<clock, report, txn>>

NextUpdate ==
    \/ \E rows \in list_all(db) : processar_relatorio(list_inventory(rows))
    \/ \E fault \in BOOLEAN, wire \in Wire : atualizar_por_api(fault, wire)

SpecUpdate == InitUpdate /\ [][NextUpdate]_vars

(***************************************************************************)
(* Properties.                                                             *)
(***************************************************************************)
Has(rows, id) == \E r \in rows : r.machine_id = id
Row(rows, id) == CHOOSE r \in rows : r.machine_id = id
Ids(rows) == {r.machine_id : r \in rows}
Range(seq) == {seq[k] : k \in 1..Len(seq)}

\* the step serves a POST, a PATCH or a DELETE, which last' then describes
ReconcileStep ==
    /\ last'.op = "create_or_update"
    /\ \E fault \in BOOLEAN : add_inventory(last'.data, fault)
PatchStep ==
    /\ last'.op = "partial_update"
    /\ \E fault \in BOOLEAN : update_inventory(last'.id, last'.data, fault)
DeleteStep ==
    /\ last'.op = "delete"
    /\ \E fault \in BOOLEAN : delete_inventory(last'.id, fault)

\* a reconcile reached the store and returned: it created, or it updated
Created == ReconcileStep /\ last'.error = "" /\ ~Has(db, last'.id)
Updated == ReconcileStep /\ last'.error = "" /\ Has(db, last'.id)

\* an observation with every required key and values of the documented
\* types: text, numbers, a date in an accepted format, an integer
IsText(v) == v.t = "str"
IsNumber(v) == v.t = "num"
Absent(data, k) == k \notin DOMAIN data
ValidObservation(data) ==
    /\ \A k \in Range(required) : k \in DOMAIN data
    /\ \A k \in {"machine_id", "hostname", "ip", "os"} : IsText(data[k])
    /\ \A k \in {"cpu_percent", "memory_total_mb"} : IsNumber(data[k])
    /\ \A k \in {"os_version", "computer_model"} :
           Absent(data, k) \/ IsText(data[k])
    /\ Absent(data, "memory_used_mb") \/ IsNumber(data["memory_used_mb"])
    /\ \/ Absent(data, "computer_activation")
       \/ data["computer_activation"].t = "null"
       \/ /\ IsText(data["computer_activation"])
          /\ parse_datetime(data["computer_activation"]).exc = ""
    /\ \/ Absent(data, "activation_days")
       \/ data["activation_days"].t = "null"
       \/ IsNumber(data["activation_days"])

\* C1: a valid observation with a machine_id not in the store is accepted
\* unless the storage refuses the commit, and an accepted one adds exactly one
\* record, of that id, and is answered created / 201; a later reconcile of an
\* id in the store adds no record, keeps the record and its created_at and is
\* answered not created / 200.
C1_Step ==
    /\ (ReconcileStep /\ ValidObservation(last'.data)
            /\ last'.original_error # "OperationalError")
           => last'.error = ""
    /\ Created =>
           /\ last'.created /\ last'.status = 201
           /\ Cardinality(db') = Cardinality(db) + 1
           /\ Ids(db') = Ids(db) \cup {last'.id}
    /\ Updated =>
           /\ ~last'.created /\ last'.status = 200
           /\ Cardinality(db') = Cardinality(db)
           /\ Ids(db') = Ids(db)
           /\ Row(db', last'.id).created_at = Row(db, last'.id).created_at
C1_CreateThenUpdate == [][C1_Step]_vars

\* C1 witness: a record created at one time was reconciled again later
C1_Witness ==
    /\ last.op = "create_or_update" /\ last.status = 200
    /\ ValidObservation(last.data)
    /\ Has(db, last.id)
    /\ Row(db, last.id).updated_at.t = "dt"
    /\ Row(db, last.id).created_at.n < Row(db, last.id).updated_at.n

\* C2: the store never holds two records of one machine_id, and a record
\* keeps its machine_id: an id leaves the store only by a delete of that id
\* and enters it only by a reconcile that created it.
C2_AtMostOne ==
    \A r1 \in db, r2 \in db : r1.machine_id = r2.machine_id => r1 = r2
C2_Step ==
    /\ \A id \in Ids(db) \ Ids(db') :
           DeleteStep /\ last'.error = "" /\ last'.id = id
    /\ \A id \in Ids(db') \ Ids(db) :
           ReconcileStep /\ last'.created /\ last'.id = id
    /\ Cardinality(db') - Cardinality(db) = 
           Cardinality(Ids(db')) - Cardinality(Ids(db))
C2_UniqueStableId == []C2_AtMostOne /\ [][C2_Step]_vars

\* C2 witness: with two records stored, one of them was updated in place
C2_Witness ==
    /\ Cardinality(db) = 2
    /\ last.op = "create_or_update" /\ last.status = 200
    /\ Row(db, last.id).updated_at = Stamp(clock)

\* C3: every stored record has a created_at, and no step changes the
\* created_at of a record that stays in the store.
C3_NotNull == \A r \in db : r.created_at.t = "dt"
C3_Step ==
    \A r \in db, r2 \in db' :
        r.machine_id = r2.machine_id => r2.created_at = r.created_at
C3_CreatedAtSetOnce == []C3_NotNull /\ [][C3_Step]_vars

\* C3 witness: a record was patched at a time after its creation
C3_Witness ==
    /\ last.op = "partial_update" /\ last.status = 200
    /\ Has(db, last.id)
    /\ Row(db, last.id).updated_at = Stamp(clock)
    /\ Row(db, last.id).created_at.n < clock

\* C4: a reconcile of an observation that lacks required keys fails with
\* ValidationError / 400, its missing_fields are exactly the absent required
\* keys, each once, and the store and the session are unchanged.
RequiredKeys ==
    {"machine_id", "hostname", "ip", "os", "cpu_percent", "memory_total_mb"}
C4_Step ==
    (ReconcileStep /\ \E k \in RequiredKeys : k \notin DOMAIN last'.data) =>
        /\ last'.error = "ValidationError" /\ last'.status = 400
        /\ Range(last'.missing_fields) = {k \in RequiredKeys : k \notin DOMAIN last'.data}
        /\ Len(last'.missing_fields) = Cardinality(Range(last'.missing_fields))
        /\ db' = db /\ session' = session
C4_MissingRequired == [][C4_Step]_vars

\* C4 witness: an observation lacking three keys was refused over a store
\* that holds a record
C4_Witness ==
    /\ last.op = "create_or_update" /\ last.status = 400
    /\ Len(last.missing_fields) = 3
    /\ "ip" \in Range(last.missing_fields)
    /\ db # {}

\* the core attributes of a record
CoreOf(r) ==
    <<r.hostname, r.ip, r.os, r.os_version, r.cpu_percent, r.memory_total_mb,
      r.memory_used_mb, r.computer_model>>

\* C5: a reconcile that fails after the required-field check leaves every
\* stored record as it was, and nothing it assigned reaches the store later:
\* a later call changes a stored record only when it succeeds, only the
\* record it addresses, and a partialUpdate none of that record's core fields.
C5_Step ==
    /\ (ReconcileStep /\ missing(last'.data) = <<>> /\ last'.error # "")
           => db' = db
    /\ \A r2 \in db' \ db :
           /\ last'.error = ""
           /\ r2.machine_id = last'.id
           /\ PatchStep => /\ Has(db, last'.id)
                           /\ CoreOf(r2) = CoreOf(Row(db, last'.id))
Recognized == {"computer_activation", "activation_days"}

\* C6: a partialUpdate stamps updated_at with the current time if and only
\* if it succeeds with a recognized key other than computer_activation in the
\* patch; otherwise, and so for a patch whose only recognized key is
\* computer_activation, updated_at is unchanged.
C6_Step ==
    (PatchStep /\ Has(db, last'.id)) =>
        /\ Has(db', last'.id)
        /\ IF /\ last'.error = ""
              /\ \E k \in Recognized \cap DOMAIN last'.data :
                     k # "computer_activation"
           THEN Row(db', last'.id).updated_at = Stamp(clock)
           ELSE Row(db', last'.id).updated_at = Row(db, last'.id).updated_at
C6_StampIffOtherThanActivation == [][C6_Step]_vars

\* C6 witness: a patch of computer_activation alone was applied to a record
\* whose updated_at is not the current time
C6_Witness ==
    /\ last.op = "partial_update" /\ last.status = 200
    /\ DOMAIN last.data = {"computer_activation"}
    /\ Row(db, last.id).computer_activation.t = "dt"
    /\ Row(db, last.id).updated_at # Stamp(clock)

\* C7 as stated: a partialUpdate whose patch contains only activation_days
\* leaves updated_at unchanged.
C7_Original_Step ==
    (PatchStep /\ last'.error = "" /\ DOMAIN last'.data = {"activation_days"})
        => Row(db', last'.id).updated_at = Row(db, last'.id).updated_at
C7_Original == [][C7_Original_Step]_vars

\* C7 as amended: a partialUpdate whose patch contains only activation_days
\* sets updated_at to the current time.
C7_Amended_Step ==
    (PatchStep /\ last'.error = "" /\ DOMAIN last'.data = {"activation_days"})
        => /\ Row(db', last'.id).updated_at = Stamp(clock)
           /\ Row(db', last'.id).activation_days = last'.data["activation_days"]
C7_DaysOnlyStamps == [][C7_Amended_Step]_vars

\* C7 witness: a patch of activation_days alone was applied after the
\* record's creation time
C7_Witness ==
    /\ last.op = "partial_update" /\ last.status = 200
    /\ DOMAIN last.data = {"activation_days"}
    /\ Row(db, last.id).activation_days = Num(7)
    /\ Row(db, last.id).updated_at = Stamp(clock)
    /\ Row(db, last.id).created_at.n < clock

\* the first n characters of a text
Prefix(v, n) == Str(SubSeq(v.s, 1, Min(Len(v.s), n)))

\* C8: a reconcile that updates a record sets every core field from the
\* observation alone: the texts cut to their widths, the numbers as given,
\* and an omitted os_version, memory_used_mb, computer_model to empty, 0, null.
C8_Step ==
    Updated =>
        LET data == last'.data
            r2 == Row(db', last'.id)
        IN  /\ r2.hostname = Prefix(data["hostname"], HostnameLen)
            /\ r2.ip = Prefix(data["ip"], IpLen)
            /\ r2.os = Prefix(data["os"], OsLen)
            /\ r2.os_version =
                   IF Absent(data, "os_version") THEN Str(<<>>)
                   ELSE Prefix(data["os_version"], OsVersionLen)
            /\ IsNumber(data["cpu_percent"]) =>
                   r2.cpu_percent = data["cpu_percent"]
            /\ IsNumber(data["memory_total_mb"]) =>
                   r2.memory_total_mb = data["memory_total_mb"]
            /\ r2.cpu_percent.t = "num" /\ r2.memory_total_mb.t = "num"
            /\ r2.memory_used_mb =
                   IF Absent(data, "memory_used_mb") THEN Num(0)
                   ELSE data["memory_used_mb"]
            /\ r2.computer_model =
                   IF Absent(data, "computer_model") THEN Null
                   ELSE Prefix(data["computer_model"], ComputerModelLen)
C8_FullOverwrite == [][C8_Step]_vars

\* C8 witness: a record that carried the optional fields of the full
\* observation was reconciled with one that omits them, and they are reset
C8_Witness ==
    /\ last.op = "create_or_update" /\ last.status = 200 /\ last.data = ObsMin
    /\ Row(db, last.id).activation_days = Num(5)
    /\ Row(db, last.id).os_version = Str(<<>>)
    /\ Row(db, last.id).memory_used_mb = Num(0)
    /\ Row(db, last.id).computer_model = Null

\* C9: a reconcile that updates a record keeps computer_activation
\* (activation_days) when the key is absent from the observation; when the key
\* is present the field becomes the parsed value, null for a null or empty one.
C9_Step ==
    Updated =>
        LET data == last'.data
            r == Row(db, last'.id)
            r2 == Row(db', last'.id)
        IN  /\ IF Absent(data, "computer_activation")
               THEN r2.computer_activation = r.computer_activation
               ELSE IF \/ data["computer_activation"].t = "null"
                       \/ /\ IsText(data["computer_activation"])
                          /\ Strip(data["computer_activation"].s) = <<>>
               THEN r2.computer_activation = Null
               ELSE r2.computer_activation =
                        parse_datetime(data["computer_activation"]).v
            /\ IF Absent(data, "activation_days")
               THEN r2.activation_days = r.activation_days
               ELSE IF data["activation_days"].t = "null"
               THEN r2.activation_days = Null
               ELSE r2.activation_days = py_int(data["activation_days"]).v
C9_ActivationKeptUnlessPresent == [][C9_Step]_vars

\* C9 witness: an observation without the activation keys updated a record
\* that keeps its activation date and days
C9_Witness ==
    /\ last.op = "create_or_update" /\ last.status = 200
    /\ Absent(last.data, "computer_activation")
    /\ Absent(last.data, "activation_days")
    /\ Row(db, last.id).computer_activation = Cal(<<2024, 1, 15, 0, 0, 0>>)
    /\ Row(db, last.id).activation_days = Num(5)

\* C10: a reconcile that updates a record sets updated_at to the current
\* time, which is not earlier than the updated_at it replaces nor than
\* created_at.
C10_Step ==
    Updated =>
        LET r == Row(db, last'.id)
            r2 == Row(db', last'.id)
        IN  /\ r2.updated_at = Stamp(clock)
            /\ r.updated_at.t = "dt" => r.updated_at.n <= r2.updated_at.n
            /\ r2.created_at.n <= r2.updated_at.n
C10_UpdatedAtStamped == [][C10_Step]_vars

\* C10 witness: a record already updated at an earlier time was reconciled
\* again by the observation it already equals in every core field
C10_Witness ==
    /\ last.op = "create_or_update" /\ last.status = 200 /\ last.data = ObsClear
    /\ Row(db, last.id).updated_at = Stamp(clock)
    /\ Row(db, last.id).created_at.n < clock

\* C11: a partialUpdate of a machine_id in the store whose patch carries
\* neither computer_activation nor activation_days fails with ValidationError
\* / 400 and leaves the store, and so the record and its updated_at, unchanged.
C11_Step ==
    (PatchStep /\ Has(db, last'.id) /\ Recognized \cap DOMAIN last'.data = {}) =>
        /\ last'.error = "ValidationError" /\ last'.status = 400
        /\ db' = db
        /\ Row(db', last'.id).updated_at = Row(db, last'.id).updated_at
C11_NoRecognizedKey == [][C11_Step]_vars

\* C11 witness: a patch of hostname alone was refused for a record that was
\* updated before the current time
C11_Witness ==
    /\ last.op = "partial_update" /\ last.status = 400
    /\ last.data = PatchOther
    /\ Has(db, last.id)
    /\ Row(db, last.id).updated_at.t = "dt"
    /\ Row(db, last.id).updated_at.n < clock

\* C12: a delete or a partialUpdate of a machine_id not in the store fails
\* with NotFoundError / 404 whatever its body and changes nothing; a delete
\* that succeeds removes the record of its id and no other record, and a
\* delete of the same id that follows it, with no reconcile served in
\* between, fails with NotFoundError.
C12_Step ==
    /\ ((DeleteStep \/ PatchStep) /\ ~Has(db, last'.id)) =>
           /\ last'.error = "NotFoundError" /\ last'.status = 404
           /\ db' = db /\ session' = session
    /\ (DeleteStep /\ last'.error = "") =>
           /\ Has(db, last'.id)
           /\ Ids(db') = Ids(db) \ {last'.id}
           /\ Cardinality(db') = Cardinality(db) - 1
    /\ (DeleteStep /\ last.op = "delete" /\ last.error = "" /\ last'.id = last.id)
           => last'.error = "NotFoundError"
C12_UnknownIdNotFound == [][C12_Step]_vars

\* C12 witness: a delete of an id that is not in the store was refused as
\* not found while another record is stored
C12_Witness ==
    /\ last.op = "delete" /\ last.status = 404
    /\ ~Has(db, last.id)
    /\ db # {}

\* C20: when POST /machines refuses an observation that lacks required keys,
\* the response has status 400 and its JSON body has an error member and a
\* missing_fields member that lists the absent keys.
C20_Step ==
    (ReconcileStep /\ \E k \in RequiredKeys : k \notin DOMAIN last'.data) =>
        /\ last'.status = 400
        /\ "error" \in DOMAIN last'.body
        /\ "missing_fields" \in DOMAIN last'.body
        /\ Range(last'.body["missing_fields"]) =
               {k \in RequiredKeys : k \notin DOMAIN last'.data}
C20_MissingFieldsInBody == [][C20_Step]_vars

\* the records with an activation date, and their whole days of age at the
\* time of the last report
Activated == {r \in db : r.computer_activation.t = "dt"}
WholeDays(r) ==
    (Instant(report.now) - Instant(r.computer_activation)) \div 86400
ActivatedYearsAgo(r, years) ==
    LET w == WallTime(r.computer_activation)
        n == WallTime(report.now)
    IN  w[1] = n[1] - years /\ w[2] = n[2] /\ w[3] = n[3]

RECURSIVE SumOfCounts(_)
SumOfCounts(data) ==
    IF data = <<>> THEN 0 ELSE data[1].count + SumOfCounts(Tail(data))

\* C17: the counts of the five age ranges of an age distribution sum to the
\* number of stored records whose computer_activation is not null.
C17_BucketsCountEveryActivation ==
    report.op = "age" =>
        /\ Len(report.data) = 5
        /\ SumOfCounts(report.data) = Cardinality(Activated)

\* C18 as stated: records activated exactly 365 days before the report are
\* counted in the range [12,36).
C18_Original ==
    (/\ report.op = "age" /\ Activated # {}
     /\ \A r \in Activated : WholeDays(r) = 365)
        => report.data[2].count = Cardinality(Activated)

\* C18 as amended: records activated exactly 365 days before the report
\* are counted in the range [0,12), records activated 366 days before it in
\* [12,36), and records activated 11 years before it in [120,inf).
C18_Days365InFirstRange ==
    report.op = "age" =>
        LET d365 == {r \in Activated : WholeDays(r) = 365}
            d366 == {r \in Activated : WholeDays(r) = 366}
            y11 == {r \in Activated : ActivatedYearsAgo(r, 11)}
        IN  /\ report.data[1].count >= Cardinality(d365)
            /\ report.data[2].count >= Cardinality(d366)
            /\ report.data[2].count <= Cardinality(Activated \ d365)
            /\ report.data[5].count >= Cardinality(y11)
            /\ (Activated # {} /\ Activated = d365) =>
                   report.data[1].count = Cardinality(Activated)
            /\ (Activated # {} /\ Activated = y11) =>
                   report.data[5].count = Cardinality(Activated)

\* C18 witness: an age distribution over a store that holds a record
\* activated 365 days ago and a record activated 11 years ago and no other
\* activated record
C18_Witness ==
    /\ report.op = "age"
    /\ \E r \in Activated : WholeDays(r) = 365
    /\ \E r \in Activated : ActivatedYearsAgo(r, 11)
    /\ Cardinality(Activated) = 2
    /\ report.data[1].count = 1 /\ report.data[5].count = 1

\* the versions stored, and how many records carry each
Versions == {r.os_version : r \in db}
VersionCount(v) == Cardinality({r \in db : r.os_version = v})

\* the version distribution lists the top_n largest groups in descending
\* order of count and then, when more groups exist and their counts do not
\* sum to zero, one last entry with the given label and that sum
TopNThenRemainder(label) ==
    report.op = "version" =>
        LET data == report.data
            n == Min(report.top_n, Cardinality(Versions))
            rest == Cardinality(db) - SumOfCounts(SubSeq(data, 1, n))
        IN  /\ Len(data) >= n
            /\ \A k \in 1..n :
                   /\ \E v \in Versions :
                          /\ data[k].version = (IF v.s = <<>> THEN Str(<<"-">>) ELSE v)
                          /\ data[k].count = VersionCount(v)
                   /\ \A j \in 1..n : j < k => data[j].count >= data[k].count
                   /\ \A j \in 1..n : j # k => data[j].version # data[k].version
            /\ \A v \in Versions :
                   (\A k \in 1..n : data[k].version
                                       # (IF v.s = <<>> THEN Str(<<"-">>) ELSE v))
                       => \A k \in 1..n : data[k].count >= VersionCount(v)
            /\ IF Cardinality(Versions) > report.top_n /\ rest # 0
               THEN /\ Len(data) = n + 1
                    /\ data[n + 1] = [version |-> label, count |-> rest]
               ELSE Len(data) = n
            /\ (Cardinality(Versions) = 10 /\ report.top_n = 8) =>
                   /\ Len(data) = 9
                   /\ data[9].version = label
                   /\ \E v \in Versions, w \in Versions :
                          /\ v # w
                          /\ \A u \in Versions \ {v, w} :
                                 VersionCount(u) >= VersionCount(v)
                                     /\ VersionCount(u) >= VersionCount(w)
                          /\ data[9].count = VersionCount(v) + VersionCount(w)

\* C19: the version distribution lists the top N groups in descending order
\* of count and, only when more than N groups exist with a non-zero
\* remainder, appends last one bucket labeled "Others" that sums the
\* remaining groups; 10 versions and top_n = 8 give 9 entries.
C19_TopNThenOthers ==
    TopNThenRemainder(Str(<<"O", "t", "h", "e", "r", "s">>))

\* the same with the label the service writes
TopNThenOutros == TopNThenRemainder(OthersLabel)

(***************************************************************************)
(* The duplicate removal tool: which records of a snapshot it flags.       *)
(***************************************************************************)
Snapshot == Range(tool.inventarios)
Flagged(item) == item.machine_id.s \in Range(tool.apagar)

\* updated_at if present else created_at, and created_at, as the texts of
\* the snapshot; texts of one zone order as their instants do
EffectiveText(item) ==
    IF item.updated_at.t = "str" THEN item.updated_at.s ELSE item.created_at.s
NotOlder(a, b) ==
    /\ ~TextLess(EffectiveText(a), EffectiveText(b))
    /\ EffectiveText(a) = EffectiveText(b)
           => ~TextLess(a.created_at.s, b.created_at.s)

\* the hostname records are grouped by: as stored, or without the blanks
\* around it
GroupName(item, stripped) ==
    IF stripped THEN Strip(item.hostname.s) ELSE item.hostname.s
Group(item, stripped) ==
    {j \in Snapshot : GroupName(j, stripped) = GroupName(item, stripped)}

\* of every group of two or more all but one record are flagged and the one
\* left is not older than any other; a record alone in its group is not
\* flagged; no record is flagged twice
KeepsNewest(stripped) ==
    /\ Len(tool.apagar) = Cardinality(Range(tool.apagar))
    /\ \A id \in Range(tool.apagar) : \E i \in Snapshot : i.machine_id.s = id
    /\ \A i \in Snapshot :
           IF Cardinality(Group(i, stripped)) = 1 THEN ~Flagged(i)
           ELSE /\ Cardinality({j \in Group(i, stripped) : Flagged(j)})
                      = Cardinality(Group(i, stripped)) - 1
                /\ \A k \in Group(i, stripped) :
                       ~Flagged(k) => \A o \in Group(i, stripped) : NotOlder(k, o)

\* C15 as stated: for each hostname shared by two or more records the tool
\* keeps the record first in the descending order of (updated_at if present
\* else created_at, created_at) and flags exactly the other group size - 1
\* records, and a hostname with a single record is never flagged, the
\* hostname being the one the records store.
C15_Original == tool.pc # "idle" => KeepsNewest(FALSE)

\* C15 amended: the same for the hostnames with the blanks around them
\* stripped, records whose hostname is then empty being never flagged: of
\* each such hostname shared by two or more records the tool keeps a record
\* that is first in the descending order of (updated_at if present else
\* created_at, created_at) and flags exactly the other group size - 1
\* records; a hostname with a single record is never flagged.  With three
\* records of effective times T3 > T1 > T2 the T3 record is kept and two are
\* flagged.
C15_KeepsNewestOfStrippedHostname ==
    tool.pc # "idle" =>
        /\ \A i \in Snapshot : GroupName(i, TRUE) = <<>> => ~Flagged(i)
        /\ \A i \in Snapshot : GroupName(i, TRUE) # <<>> =>
               IF Cardinality(Group(i, TRUE)) = 1 THEN ~Flagged(i)
               ELSE /\ Cardinality({j \in Group(i, TRUE) : Flagged(j)})
                          = Cardinality(Group(i, TRUE)) - 1
                    /\ \A k \in Group(i, TRUE) :
                           ~Flagged(k) => \A o \in Group(i, TRUE) : NotOlder(k, o)
        /\ Len(tool.apagar) = Cardinality(Range(tool.apagar))
        /\ \A id \in Range(tool.apagar) : \E i \in Snapshot : i.machine_id.s = id

\* three records on one hostname, the one kept updated at T3, another with
\* created_at = T1 alone, the third at T2, T3 > T1 > T2, and two flagged
C15_Witness ==
    /\ tool.pc # "idle"
    /\ \E a, b, c \in Snapshot :
           /\ Group(a, FALSE) = {a, b, c} /\ Cardinality({a, b, c}) = 3
           /\ a.updated_at.t = "str" /\ b.updated_at.t = "null"
           /\ TextLess(EffectiveText(b), EffectiveText(a))
           /\ TextLess(EffectiveText(c), EffectiveText(b))
           /\ ~Flagged(a) /\ Flagged(b) /\ Flagged(c)
           /\ Len(tool.apagar) = 2

\* C16: in apply mode a DELETE is issued for every flagged record even when
\* earlier ones fail: a failed delete is recorded in the error list and the
\* pass goes on, so the pass never ends on an exception, every flagged record
\* is either removed, recorded as an error or still to come, and at the end
\* removed + errors is the number of flagged records; a dry run issues no
\* DELETE and leaves the store as it was.
C16_EveryFlaggedDeleteIssued ==
    /\ (tool.pc # "idle" /\ ~tool.dry_run) =>
           /\ tool.raised = "" /\ tool.pc # "aborted"
           /\ tool.removidos + Len(tool.erros) + Len(tool.fila) = Len(tool.apagar)
           /\ tool.pc = "done" =>
                  tool.removidos + Len(tool.erros) = Len(tool.apagar)
    /\ (tool.pc # "idle" /\ tool.dry_run) =>
           /\ tool.pc = "done" /\ tool.removidos = 0 /\ tool.erros = <<>>
           /\ tool.ignorados = Len(tool.apagar)
           /\ last = NoRequest
           /\ tool.inventarios \in {list_inventory(rows) : rows \in list_all(db)}

(***************************************************************************)
(* The duplicate removal tool and the reconciles made during its pass.     *)
(***************************************************************************)
\* the instant a record was last updated at: updated_at, else created_at
EffectiveInstant(r) ==
    IF r.updated_at.t = "dt" THEN Instant(r.updated_at) ELSE Instant(r.created_at)

\* a DELETE of the pass takes effect in this step, on the record Doomed
PassDeletes ==
    /\ tool.pc = "deleting"
    /\ tool'.removidos = tool.removidos + 1
    /\ Has(db, Head(tool.fila)) /\ ~Has(db', Head(tool.fila))
Doomed == Row(db, Head(tool.fila))

\* C14: no DELETE of the apply pass removes a record that, when the delete
\* takes effect, is the most recently updated (updated_at, else created_at)
\* of the stored records sharing its hostname: some other stored record of
\* that hostname was updated at the same instant or later.
C14_Step ==
    PassDeletes =>
        \E o \in db \ {Doomed} :
            /\ o.hostname = Doomed.hostname
            /\ EffectiveInstant(o) >= EffectiveInstant(Doomed)
C14_PassSparesTheNewest == [][C14_Step]_vars

(***************************************************************************)
(* Two reconciles of one machine_id at the same time.                      *)
(***************************************************************************)
\* a record without its two timestamps
Unstamped(r) == [c \in Columns \ {"created_at", "updated_at"} |-> r[c]]

\* the store after a reconcile served alone on a store
Alone(rows, k) ==
    commit_found(rows, {r \in rows : r.machine_id = txn.req[k].data["machine_id"].s},
                 txn.req[k].data, txn.req[k].out.now, FALSE).db

\* the stores the two requests produce when served one after the other
OneAfterTheOther ==
    {Alone(Alone(txn.base, 1), 2), Alone(Alone(txn.base, 2), 1)}

BothReturned ==
    \A k \in Slots : txn.req[k].pc = "done" /\ txn.req[k].out.error = ""

\* C13: concurrent reconciles of one machine_id serialize: once both have
\* returned, the stored record is the one that serving them one after the
\* other, in one order or the other, leaves (timestamps apart), and the
\* core fields of a stored record are at all times those of one single
\* observation.
C13_ReconcilesSerialize ==
    /\ \A r \in db : \E data \in RaceObs :
           \A c \in {"hostname", "ip", "os", "os_version", "cpu_percent",
                      "memory_total_mb", "memory_used_mb", "computer_model"} :
               r[c] = core_fields(data)[c]
    /\ BothReturned =>
           \E rows \in OneAfterTheOther :
               {Unstamped(r) : r \in db} = {Unstamped(r) : r \in rows}

(***************************************************************************)
(* Input that is present and malformed.                                    *)
(***************************************************************************)
\* a body with a null hostname, ip or os, a cpu_percent or memory_total_mb
\* that is no number, or an activation_days that is no integer
Malformed(data) ==
    \/ \E k \in {"hostname", "ip", "os"} : k \in DOMAIN data /\ data[k].t = "null"
    \/ \E k \in {"cpu_percent", "memory_total_mb"} :
           k \in DOMAIN data /\ (data[k].t = "null" \/ py_float(data[k]).exc # "")
    \/ /\ "activation_days" \in DOMAIN data
       /\ data["activation_days"].t # "null"
       /\ py_int(data["activation_days"]).exc # ""

\* C21: a reconcile with every required key, or a partialUpdate of a stored
\* record, whose body carries a malformed field fails with ValidationError
\* (400), never with DatabaseError (500), and leaves the store as it was.
C21_Step ==
    (\/ ReconcileStep /\ missing(last'.data) = <<>> /\ Malformed(last'.data)
     \/ PatchStep /\ Has(db, last'.id) /\ Malformed(last'.data)) =>
        /\ last'.error = "ValidationError" /\ last'.status = 400
        /\ db' = db
C21_MalformedIsValidationError == [][C21_Step]_vars

(***************************************************************************)
(* The ranges of the stored numbers and the widths of the stored texts.    *)
(***************************************************************************)
\* C22: every stored record has cpu_percent >= 0, memory_total_mb >= 0 and
\* memory_used_mb >= 0, whatever numbers the accepted observations carried.
C22_NumbersNonNegative ==
    \A r \in db :
        /\ r.cpu_percent.n >= 0
        /\ r.memory_total_mb.n >= 0
        /\ r.memory_used_mb.n >= 0

\* the texts of a record that have a width, and the width
Widths ==
    [hostname |-> HostnameLen, ip |-> IpLen, os |-> OsLen,
     os_version |-> OsVersionLen, computer_model |-> ComputerModelLen]

\* C23: every stored record has len(hostname) <= 100, len(ip) <= 45,
\* len(os) <= 100, len(os_version) <= 100 and len(computer_model) <= 100, and
\* an observation with an over-long text is not rejected: unless the storage
\* refuses the commit it is accepted, and the record stores the prefix of
\* that length.
C23_Step ==
    /\ \A r \in db' : \A c \in DOMAIN Widths :
           r[c].t = "str" => Len(r[c].s) <= Widths[c]
    /\ (ReconcileStep /\ last'.data \in LimitObs) =>
           /\ last'.error \in {"", "DatabaseError"}
           /\ last'.error = "DatabaseError" => last'.original_error = "OperationalError"
           /\ (\E fault \in {FALSE} : add_inventory(last'.data, fault))
                  => last'.error = ""
           /\ last'.error = "" =>
                  \A c \in DOMAIN Widths :
                      Row(db', last'.id)[c] =
                          Str(SubSeq(last'.data[c].s, 1,
                                     Min(Widths[c], Len(last'.data[c].s))))
C23_TruncatedNotRejected == [][C23_Step]_vars

\* an observation whose texts are each one character too long was accepted
\* and the record holds texts of exactly the widths
C23_Witness ==
    /\ last.op = "create_or_update" /\ last.error = ""
    /\ \A c \in DOMAIN Widths : Len(last.data[c].s) = Widths[c] + 1
    /\ \A c \in DOMAIN Widths : Len(Row(db, last.id)[c].s) = Widths[c]

(***************************************************************************)
(* The instants _parse_datetime yields.                                    *)
(***************************************************************************)
\* the minutes east of UTC of a written offset
WrittenOffset ==
    [none |-> TzOffsetMinutes, z |-> 0, utc |-> 0, west |-> 0 - 240, east |-> 330]

\* the epoch second a given date and time denote: at the written offset, in
\* the configured zone when none is written
GivenInstant(p) ==
    DaysFromCivil(p.date[1], p.date[2], p.date[3]) * 86400 + p.time[1] * 3600
        + p.time[2] * 60 + p.time[3] - WrittenOffset[p.off] * 60

Unmatched(v) ==
    /\ IsText(v)
    /\ Strip(v.s) # <<>>
    /\ parse_datetime(v).exc # ""

\* the step serves a reconcile or a partialUpdate that hands its
\* computer_activation to _parse_datetime: a reconcile with every required
\* key and well-formed numbers, a partialUpdate of a stored record
Normalizes ==
    /\ \/ ReconcileStep /\ missing(last'.data) = <<>> /\ ~Malformed(last'.data)
       \/ PatchStep /\ Has(db, last'.id)
    /\ "computer_activation" \in DOMAIN last'.data

\* C25: a reconcile or partialUpdate whose computer_activation is a non-empty
\* text that no accepted format reads is answered 400 with the
\* ValidationError of _parse_datetime, whose message carries the value as it
\* was given, and the store is as it was before the call; null and the empty
\* text are no error of the format, and a call that succeeds with one of them
\* stores no computer_activation.
C25_Step ==
    /\ (Normalizes /\ Unmatched(last'.data["computer_activation"])) =>
           /\ last'.error = "ValidationError" /\ last'.status = 400
           /\ last'.body =
                  [error |-> <<"Invalid datetime format: ",
                               last'.data["computer_activation"]>>]
           /\ db' = db
    /\ (Normalizes /\ last'.data["computer_activation"] \in {Null, Str(<<>>)}) =>
           /\ last'.error # "ValidationError"
           /\ last'.error = "" =>
                  Row(db', last'.id).computer_activation = Null
C25_UnmatchedDateIsRejected == [][C25_Step]_vars

\* C25 witness: a stored record that carries a computer_activation was sent
\* a date that is no date, the call was answered 400 and the record is as it
\* was
C25_Witness ==
    /\ last.op \in {"create_or_update", "partial_update"}
    /\ "computer_activation" \in DOMAIN last.data
    /\ Unmatched(last.data["computer_activation"])
    /\ last.status = 400
    /\ Has(db, last.id)
    /\ Row(db, last.id).computer_activation.t = "dt"

(***************************************************************************)
(* What a partial update leaves alone.                                     *)
(***************************************************************************)
\* C26: a partialUpdate that succeeds changes, of the addressed record, only
\* computer_activation, activation_days and updated_at, and of the two
\* activation fields only those whose key is in the patch; every other
\* record is as it was.
C26_Step ==
    (PatchStep /\ last'.error = "") =>
        /\ Has(db, last'.id) /\ Has(db', last'.id)
        /\ \A k \in Columns \ {"computer_activation", "activation_days",
                                 "updated_at"} :
               Row(db', last'.id)[k] = Row(db, last'.id)[k]
        /\ \A k \in {"computer_activation", "activation_days"} \ DOMAIN last'.data :
               Row(db', last'.id)[k] = Row(db, last'.id)[k]
        /\ {r \in db' : r.machine_id # last'.id} =
               {r \in db : r.machine_id # last'.id}
BothDoneOnEmpty ==
    /\ txn.base = {}
    /\ \A k \in Slots : txn.req[k].pc = "done"

\* the request failed because the storage did, not because of the other
\* request
StorageFailed(k) == txn.req[k].out.original_error = "OperationalError"

\* C27: two reconciles of one machine_id that is not stored, in every
\* interleaving of their lookups and commits: the store ends with at most
\* one record of the id, and with exactly one unless the storage failed
\* under both; at most one call reports created; the other one reports an
\* update or fails with DatabaseError, and when it fails the stored record is
\* the one the creating call inserted.
C27_ConcurrentCreate ==
    BothDoneOnEmpty =>
        /\ Cardinality(db) <= 1
        /\ (\E k \in Slots : ~StorageFailed(k)) => Cardinality(db) = 1
        /\ Cardinality({k \in Slots : txn.req[k].out.created}) <= 1
        /\ \A k \in Slots :
               \/ txn.req[k].out.error = ""
               \/ txn.req[k].out.error = "DatabaseError"
        /\ \A k \in Slots :
               (txn.req[k].out.created /\ txn.req[3 - k].out.error # "") =>
                   db = commit_insert({}, txn.req[k].data, txn.req[k].out.now,
                                      FALSE).db

\* C27 witness: both requests found no record, one created it and the other
\* failed on the key that was taken meanwhile
C27_Witness ==
    /\ BothDoneOnEmpty
    /\ \A k \in Slots : txn.req[k].found = {}
    /\ \E k \in Slots :
           /\ txn.req[k].out.created
           /\ txn.req[3 - k].out.error = "DatabaseError"
           /\ txn.req[3 - k].out.original_error = "IntegrityError"
           /\ txn.req[3 - k].data # txn.req[k].data
    /\ Cardinality(db) = 1

(***************************************************************************)
(* The store a pass of the duplicate removal tool leaves.                  *)
(***************************************************************************)
\* a pass that removes ended with every one of its deletes answered 200
PassApplied == tool.pc = "done" /\ ~tool.dry_run /\ tool.erros = <<>>

\* the records GET /machines lists of a hostname without the blanks around it
Named(items, hostname) ==
    {k \in 1..Len(items) : Strip(items[k].hostname.s) = hostname}

\* what a listing of the store shows after the pass, and what a pass over
\* that listing does
LeavesOnePerHostname(after) ==
    /\ \A k \in 1..Len(after) :
           Strip(after[k].hostname.s) # <<>> =>
               Named(after, Strip(after[k].hostname.s)) = {k}
    /\ \A i \in Snapshot :
           GroupName(i, TRUE) # <<>> =>
               Cardinality(Named(after, GroupName(i, TRUE))) = 1
    /\ duplicados(after) = 0
    /\ apagar(after, grupos_keys(after)) = <<>>

\* C28: after a pass that removes, every delete of which succeeded and
\* during which nothing else wrote to the store, no two stored records have
\* the same non-empty stripped hostname, every hostname the store had a
\* record of before the pass has exactly one, and a pass over the store as it
\* is then finds no duplicated hostname and removes nothing.
C28_PassIsIdempotent ==
    PassApplied =>
        \A rows \in list_all(db) : LeavesOnePerHostname(list_inventory(rows))

\* C28 witness: the pass removed a record whose hostname differs from the
\* kept one's by a blank
C28_Witness ==
    /\ PassApplied
    /\ tool.removidos >= 1
    /\ \E a, b \in Snapshot :
           /\ a.hostname.s # b.hostname.s
           /\ GroupName(a, TRUE) = GroupName(b, TRUE)
           /\ Flagged(a) /\ ~Flagged(b)
           /\ \A r \in db : r.machine_id # a.machine_id.s

(***************************************************************************)
(* What the activation update tool sends and what it changes.              *)
(***************************************************************************)
\* the machine_ids a pass of the duplicate removal tool would remove from
\* the store, for every order the listing may come in
WouldRemove(rows) ==
    {Range(apagar(list_inventory(o), grupos_keys(list_inventory(o)))) :
         o \in list_all(rows)}

\* the run before this one ended with every PATCH answered 200
RerunAfterSuccess ==
    /\ tool.run >= 2
    /\ tool.anterior.pc = "done"
    /\ tool.anterior.erros = <<>>

\* C29: every PATCH body the activation update tool sends has the single key
\* computer_activation; a step of a run changes no record's updated_at
\* (nor its created_at or hostname), so the records the duplicate removal
\* tool would remove stay the same; and a run that follows one in which
\* every PATCH succeeded, with the same report on the store as that run left
\* it, sends no PATCH, the date read back from the API being the date
\* written.
C29_Step ==
    /\ \A k \in 1..Len(tool'.sent) :
           DOMAIN tool'.sent[k] = {"computer_activation"}
    /\ /\ Ids(db') = Ids(db)
       /\ \A r \in db :
              /\ Row(db', r.machine_id).updated_at = r.updated_at
              /\ Row(db', r.machine_id).created_at = r.created_at
              /\ Row(db', r.machine_id).hostname = r.hostname
       /\ WouldRemove(db') = WouldRemove(db)
    /\ RerunAfterSuccess' =>
           /\ tool'.pc = "done"
           /\ tool'.fila = <<>> /\ tool'.sent = <<>>
           /\ tool'.atualizados = 0
C29_ToolPatchesActivationOnly == [][C29_Step]_vars

\* C29 witness: a run patched two records, every PATCH was answered 200, a
\* record updated at tick 1 now carries the date of the report, and the run
\* after it sent nothing
C29_Witness ==
    /\ RerunAfterSuccess
    /\ tool.anterior.atualizados = 2
    /\ tool.pc = "done" /\ tool.sent = <<>>
    /\ \E r \in db :
           /\ r.updated_at = Stamp(1)
           /\ r.computer_activation = Cal(<<2023, 12, 31, 0, 0, 0>>)

(***************************************************************************)
(* The distributions account for every record.                             *)
(***************************************************************************)
\* the counts of a list do not increase along it
NonIncreasing(data) ==
    \A j \in 1..Len(data), k \in 1..Len(data) :
        j < k => data[j].count >= data[k].count

\* the version distribution ends with the bucket of the remaining groups
HasRemainder ==
    /\ report.op = "version"
    /\ Cardinality(Versions) > report.top_n
    /\ Len(report.data) = report.top_n + 1

\* C30: over a store made by reconciles and for every top_n >= 0, the counts
\* of the OS distribution sum to the number of stored records, and so do
\* the counts of the version distribution, the bucket of the remaining
\* groups included; the OS distribution is in non-increasing order of count,
\* and so is the version distribution apart from that bucket, which is
\* last.
C30_DistributionsCountEveryRecord ==
    /\ report.op = "os" =>
           /\ SumOfCounts(report.data) = Cardinality(db)
           /\ NonIncreasing(report.data)
    /\ report.op = "version" =>
           /\ SumOfCounts(report.data) = Cardinality(db)
           /\ NonIncreasing(IF HasRemainder
                            THEN SubSeq(report.data, 1, report.top_n)
                            ELSE report.data)
           /\ \A k \in 1..Len(report.data) :
                  report.data[k].version = OthersLabel =>
                      HasRemainder /\ k = Len(report.data)
           /\ HasRemainder =>
                  report.data[Len(report.data)].version = OthersLabel

\* C30 witness: a version distribution of the largest group and a bucket of
\* the remaining groups that counts more records than it
C30_Witness ==
    /\ HasRemainder
    /\ report.top_n = 1
    /\ Len(report.data) = 2
    /\ report.data[2].count > report.data[1].count
    /\ SumOfCounts(report.data) = Cardinality(db)
    /\ Cardinality(db) > 3
====
